---- MODULE Spec2Model ----
(***************************************************************************)
(* Model of the automation engine of src/main.py (class Plugin): the      *)
(* per-lesson session, the confirmation ("tip") window with its 5000 ms    *)
(* deadline timer and 20 ms realtime poll, the deferred one-shot callbacks *)
(* and the overlay mode flags.                                             *)
(*                                                                         *)
(* Time is counted in units of 100 ms (the greatest common divisor of the  *)
(* 300 / 500 / 3000 / 5000 ms intervals of the code).  Every running timer *)
(* is kept as the number of units left until it expires, and the wall      *)
(* clock only as the difference time.time() - lesson_start_time, which is  *)
(* all the code reads of it.  Everything runs on the one Qt thread: each   *)
(* handler is one atomic action.  A timer that is due fires before the     *)
(* clock advances; the order of callbacks due at the same instant is not   *)
(* fixed (Qt timers are coarse).  The 20 ms poll is shorter than a unit:   *)
(* it may run at any moment while its timer is active and runs at least    *)
(* once in every unit.                                                     *)
(*                                                                         *)
(* The plugin's fields are the variables; the methods are operators from   *)
(* a record of all fields to the record after the call, so that a method   *)
(* calling another is the composition the code performs.                   *)
(***************************************************************************)
EXTENDS Integers, Sequences, FiniteSets, Bags, TLC

\* ------------------------------------------------------------- bounds ---
\* inputs from outside a run may take: lesson-name changes, user activity,
\* button clicks and the shutdown (plain update ticks are not counted)
MaxInputs == 3

\* milliseconds in one unit of model time
UnitMs == 100

\* sequence numbers of the activities of one node
MaxNumber == 2
\* the largest |"time"| of a rule, in seconds, where the trigger condition
\* is checked on its own
MaxOffset == 2
\* the longest run of samples with the pointer at rest that is followed
MaxStationarySamples == 22

\* ---------------------------------------------------------- constants ---
UnitsPerSecond == 1000 \div UnitMs
TipDeadline == 5000 \div UnitMs
CloseAnimTime == 300 \div UnitMs
InterruptDelay == 300 \div UnitMs
NoticeAutoClose == 3000 \div UnitMs
OverlayAnimTime == 500 \div UnitMs

None == "None"
Modes == {"blackboard", "whiteboard", "none"}
Lessons == {"A", "B"}
LessonInputs == Lessons \cup {None}
\* remaining_seconds of the tuple returned by get_current_activity_time_info
NoRemaining == -1
RemainingInputs == {NoRemaining, 0, 2}

RuleSet == [time : {1, -1}, click : {"True", "False"}, mode : Modes]

\* the timeline resolvers
SecondsPerMinute == 60
DaySeconds == 24 * 60 * SecondsPerMinute
NodeIndexes == {1, 2}
DurationInputs == {1, 2}
\* Python's None where the other values are numbers or activity ids
NoStart == NoRemaining
NoTotal == NoRemaining
NoState == NoRemaining
NoActivity == [type |-> None, node |-> 0, number |-> 0]
\* the timer period and the rest time of the pointer detector, in ms
mouse_check_interval == 100
mouse_hide_delay == 2000
\* get_mouse_position returns an (x, y) tuple, or None when the query fails
NoPosition == << >>
PositionInputs == {<<0, 0>>, <<0, 1>>}
\* virtual-key codes that stand for the 255 polled ones: the left mouse
\* button, Shift, the letter A and the left Shift key
VK_LBUTTON == 1
VK_SHIFT == 16
VK_A == 65
VK_LSHIFT == 160
KeyCodes == {VK_LBUTTON, VK_SHIFT, VK_A, VK_LSHIFT}
\* the codes check_user_activity ignores: Shift, Ctrl, Alt and both Win
IgnoredKeys == {16, 17, 18, 91, 92}
\* what GetAsyncKeyState reports for all codes in one poll: the left
\* Shift key is down only while Shift is
KeyStateInputs == {k \in [KeyCodes -> BOOLEAN] : k[VK_LSHIFT] => k[VK_SHIFT]}
\* get_key_states returns an empty dict when the query fails
NoKeyStates == << >>

VARIABLES
    lesson_elapsed, stopped, automation_settings,
    current_lesson_name, previous_lesson_name,
    user_activity_detected, automation_triggered,
    tip_window, tip_timer, tip_timer_at,
    realtime_check_timer, realtime_due,
    tip_close_animation_group, close_at,
    current_automation_mode,
    is_blackboard_mode, is_whiteboard_mode,
    blackboard_widget, whiteboard_widget,
    blackboard_animation, blackboard_anim_at,
    whiteboard_animation, whiteboard_anim_at,
    shots,
    \* observation of the run (not fields of the plugin)
    inputs, prompts, switches, switch_mode, armed_stale, cancelled,
    \* the host context the two timeline resolvers read, and their results
    timeline_data, current_part, current_time,
    current_course_id, time_info, resolved,
    \* the stationary-pointer detector of the overlays, the number of
    \* times it blanked the cursor since the pointer last moved and the
    \* number of times it restored the cursor since the pointer last rested
    mouse_hidden, mouse_stationary_time, last_mouse_position,
    mouse_hide_timer, hide_signals, show_signals,
    \* the GlobalEventFilter, and the user_activity_detected signals its
    \* last poll emitted, each with the branch that emitted it
    running, poll_timer, last_mouse_pos, last_key_state, emitted,
    \* the percentage last handed to the progress ring of each overlay
    current_blackboard_progress, current_whiteboard_progress

vars == <<lesson_elapsed, stopped, automation_settings,
    current_lesson_name, previous_lesson_name,
    user_activity_detected, automation_triggered,
    tip_window, tip_timer, tip_timer_at,
    realtime_check_timer, realtime_due,
    tip_close_animation_group, close_at,
    current_automation_mode,
    is_blackboard_mode, is_whiteboard_mode,
    blackboard_widget, whiteboard_widget,
    blackboard_animation, blackboard_anim_at,
    whiteboard_animation, whiteboard_anim_at,
    shots,
    inputs, prompts, switches, switch_mode, armed_stale, cancelled,
    timeline_data, current_part, current_time,
    current_course_id, time_info, resolved,
    mouse_hidden, mouse_stationary_time, last_mouse_position,
    mouse_hide_timer, hide_signals, show_signals,
    running, poll_timer, last_mouse_pos, last_key_state, emitted,
    current_blackboard_progress, current_whiteboard_progress>>

\* the automation engine takes the resolvers' results as inputs of its
\* update tick; the context they are computed from stays as it is
context == <<timeline_data, current_part, current_time,
             current_course_id, time_info, resolved>>

\* the fields of the stationary-pointer detector
monitor == <<mouse_hidden, mouse_stationary_time, last_mouse_position,
             mouse_hide_timer, hide_signals, show_signals>>

\* the fields of the GlobalEventFilter
listener == <<running, poll_timer, last_mouse_pos, last_key_state, emitted>>

\* the progress rings of the two overlays
display == <<current_blackboard_progress, current_whiteboard_progress>>

\* the fields of the plugin and the observations of the automation engine
engine == <<lesson_elapsed, stopped, automation_settings,
    current_lesson_name, previous_lesson_name,
    user_activity_detected, automation_triggered,
    tip_window, tip_timer, tip_timer_at,
    realtime_check_timer, realtime_due,
    tip_close_animation_group, close_at,
    current_automation_mode,
    is_blackboard_mode, is_whiteboard_mode,
    blackboard_widget, whiteboard_widget,
    blackboard_animation, blackboard_anim_at,
    whiteboard_animation, whiteboard_anim_at,
    shots,
    inputs, prompts, switches, switch_mode, armed_stale, cancelled>>

Self == [
    lesson_elapsed |-> lesson_elapsed, stopped |-> stopped,
    automation_settings |-> automation_settings,
    current_lesson_name |-> current_lesson_name,
    previous_lesson_name |-> previous_lesson_name,
    user_activity_detected |-> user_activity_detected,
    automation_triggered |-> automation_triggered,
    tip_window |-> tip_window, tip_timer |-> tip_timer,
    tip_timer_at |-> tip_timer_at,
    realtime_check_timer |-> realtime_check_timer,
    realtime_due |-> realtime_due,
    tip_close_animation_group |-> tip_close_animation_group,
    close_at |-> close_at,
    current_automation_mode |-> current_automation_mode,
    is_blackboard_mode |-> is_blackboard_mode,
    is_whiteboard_mode |-> is_whiteboard_mode,
    blackboard_widget |-> blackboard_widget,
    whiteboard_widget |-> whiteboard_widget,
    blackboard_animation |-> blackboard_animation,
    blackboard_anim_at |-> blackboard_anim_at,
    whiteboard_animation |-> whiteboard_animation,
    whiteboard_anim_at |-> whiteboard_anim_at,
    shots |-> shots,
    inputs |-> inputs, prompts |-> prompts, switches |-> switches,
    switch_mode |-> switch_mode, armed_stale |-> armed_stale,
    cancelled |-> cancelled]

ApplyEngine(s) ==
    /\ lesson_elapsed' = s.lesson_elapsed
    /\ stopped' = s.stopped
    /\ automation_settings' = s.automation_settings
    /\ current_lesson_name' = s.current_lesson_name
    /\ previous_lesson_name' = s.previous_lesson_name
    /\ user_activity_detected' = s.user_activity_detected
    /\ automation_triggered' = s.automation_triggered
    /\ tip_window' = s.tip_window
    /\ tip_timer' = s.tip_timer
    /\ tip_timer_at' = s.tip_timer_at
    /\ realtime_check_timer' = s.realtime_check_timer
    /\ realtime_due' = s.realtime_due
    /\ tip_close_animation_group' = s.tip_close_animation_group
    /\ close_at' = s.close_at
    /\ current_automation_mode' = s.current_automation_mode
    /\ is_blackboard_mode' = s.is_blackboard_mode
    /\ is_whiteboard_mode' = s.is_whiteboard_mode
    /\ blackboard_widget' = s.blackboard_widget
    /\ whiteboard_widget' = s.whiteboard_widget
    /\ blackboard_animation' = s.blackboard_animation
    /\ blackboard_anim_at' = s.blackboard_anim_at
    /\ whiteboard_animation' = s.whiteboard_animation
    /\ whiteboard_anim_at' = s.whiteboard_anim_at
    /\ shots' = s.shots
    /\ inputs' = s.inputs
    /\ prompts' = s.prompts
    /\ switches' = s.switches
    /\ switch_mode' = s.switch_mode
    /\ armed_stale' = s.armed_stale
    /\ cancelled' = s.cancelled

\* a step of the automation engine: the resolvers' context, the pointer
\* detector and the event filter stay as they are
Apply(s) ==
    /\ ApplyEngine(s)
    /\ UNCHANGED <<context, monitor, listener, display>>

\* ------------------------------------------------------ overlay modes ---
\* variant: the overlay flags are not consulted
get_current_mode_blind(s) == "none"

get_current_mode(s) ==
    IF s.is_blackboard_mode THEN "blackboard"
    ELSE IF s.is_whiteboard_mode THEN "whiteboard"
    ELSE "none"

\* init_blackboard_ui loads a fresh widget (the ui file ships with the
\* plugin); show_blackboard then raises the flag.
show_blackboard(s) ==
    IF s.is_blackboard_mode THEN s
    ELSE [s EXCEPT !.blackboard_widget = "live",
                   !.blackboard_animation = None,
                   !.blackboard_anim_at = 0,
                   !.is_blackboard_mode = TRUE]

show_whiteboard(s) ==
    IF s.is_whiteboard_mode THEN s
    ELSE [s EXCEPT !.whiteboard_widget = "live",
                   !.whiteboard_animation = None,
                   !.whiteboard_anim_at = 0,
                   !.is_whiteboard_mode = TRUE]

\* A widget deleted by stop() makes the animation constructor raise; the
\* handler's except clause swallows it and nothing else changes.
close_blackboard(s) ==
    IF ~s.is_blackboard_mode \/ s.blackboard_widget = None THEN s
    ELSE IF s.blackboard_widget = "deleted" THEN s
    ELSE [s EXCEPT !.blackboard_animation = "closing",
                   !.blackboard_anim_at = OverlayAnimTime]

close_whiteboard(s) ==
    IF ~s.is_whiteboard_mode \/ s.whiteboard_widget = None THEN s
    ELSE IF s.whiteboard_widget = "deleted" THEN s
    ELSE [s EXCEPT !.whiteboard_animation = "closing",
                   !.whiteboard_anim_at = OverlayAnimTime]

on_blackboard_animation_finished(s) ==
    [s EXCEPT !.blackboard_widget = None,
              !.blackboard_animation = None,
              !.blackboard_anim_at = 0,
              !.is_blackboard_mode = FALSE]

on_whiteboard_animation_finished(s) ==
    [s EXCEPT !.whiteboard_widget = None,
              !.whiteboard_animation = None,
              !.whiteboard_anim_at = 0,
              !.is_whiteboard_mode = FALSE]

switch_to_blackboard_from_whiteboard(s) == show_blackboard(close_whiteboard(s))

switch_to_whiteboard_from_blackboard(s) == show_whiteboard(close_blackboard(s))

execute_mode_switch(s, mode) ==
    LET t == [s EXCEPT !.switches = @ + 1,
                       !.switch_mode = mode]
    IN IF mode = "blackboard" THEN show_blackboard(t)
       ELSE IF mode = "whiteboard" THEN show_whiteboard(t)
       ELSE close_whiteboard(close_blackboard(t))

\* ----------------------------------------------------- the tip window ---
close_tip_window(s) ==
    LET s1 == [s EXCEPT !.realtime_check_timer = None,
                        !.realtime_due = FALSE]
    IN IF s1.tip_window = None
       THEN [s1 EXCEPT !.tip_timer = None, !.tip_timer_at = 0]
       ELSE [s1 EXCEPT !.tip_close_animation_group = "running",
                       !.close_at = CloseAnimTime]

finish_close_tip_window(s) ==
    [s EXCEPT !.current_automation_mode = None,
              !.realtime_check_timer = None,
              !.realtime_due = FALSE,
              !.tip_window = None,
              !.tip_close_animation_group = None,
              !.close_at = 0,
              !.tip_timer = None,
              !.tip_timer_at = 0]

reset_user_activity_state(s) == [s EXCEPT !.user_activity_detected = FALSE]

\* variant: arming keeps the activity recorded before
show_tip_window_keeps_activity(s, kind, mode) ==
    LET s1 == close_tip_window(s)
    IN [s1 EXCEPT !.current_automation_mode = mode,
                  !.tip_window = kind,
                  !.realtime_check_timer = "active",
                  !.realtime_due = TRUE,
                  !.tip_timer = "active",
                  !.tip_timer_at = TipDeadline,
                  !.armed_stale = FALSE]

\* kind is "confirm" for the three "about to switch" messages of
\* trigger_automation and "notice" for the "interrupted" message.
show_tip_window(s, kind, mode) ==
    LET s1 == close_tip_window(s)
        s2 == reset_user_activity_state(s1)
    IN [s2 EXCEPT !.current_automation_mode = mode,
                  !.tip_window = kind,
                  !.realtime_check_timer = "active",
                  !.realtime_due = TRUE,
                  !.tip_timer = "active",
                  !.tip_timer_at = TipDeadline,
                  !.armed_stale = FALSE]

Shot(fn, at) == [fn |-> fn, at |-> at]

handle_immediate_interruption(s) ==
    LET s1 == [s EXCEPT !.realtime_check_timer = None,
                        !.realtime_due = FALSE,
                        !.tip_timer = None,
                        !.tip_timer_at = 0,
                        !.cancelled = @ \/ (s.tip_window = "confirm"
                                            /\ ~s.armed_stale)]
        s2 == close_tip_window(s1)
    IN [s2 EXCEPT !.shots = @ (+) SetToBag({Shot("show_interruption_success",
                                                 InterruptDelay)})]

show_interruption_success(s) ==
    LET s1 == show_tip_window(s, "notice", "none")
    IN [s1 EXCEPT !.shots = @ (+) SetToBag({Shot("close_tip_window",
                                                 NoticeAutoClose)})]

\* variant: the poll leaves a rule with click = "True" alone
check_realtime_user_activity_click_exempt(s) ==
    IF s.tip_window = None
    THEN [s EXCEPT !.realtime_check_timer = None, !.realtime_due = FALSE]
    ELSE IF /\ s.user_activity_detected
            /\ ~(/\ s.previous_lesson_name \in DOMAIN s.automation_settings
                 /\ s.automation_settings[s.previous_lesson_name].click = "True")
         THEN handle_immediate_interruption(s)
         ELSE s

check_realtime_user_activity(s) ==
    IF s.tip_window = None
    THEN [s EXCEPT !.realtime_check_timer = None, !.realtime_due = FALSE]
    ELSE IF s.user_activity_detected
         THEN handle_immediate_interruption(s)
         ELSE s

\* variant: the deadline switches whatever activity was recorded
on_tip_timeout_ignores_activity(s) ==
    LET s1 == [s EXCEPT !.realtime_check_timer = None,
                        !.realtime_due = FALSE,
                        !.tip_timer = "inactive",
                        !.tip_timer_at = 0]
    IN close_tip_window(execute_mode_switch(s1, s1.current_automation_mode))

\* variant: the deadline closes the window without switching
on_tip_timeout_without_switch(s) ==
    LET s1 == [s EXCEPT !.realtime_check_timer = None,
                        !.realtime_due = FALSE,
                        !.tip_timer = "inactive",
                        !.tip_timer_at = 0]
    IN IF s1.user_activity_detected
       THEN handle_immediate_interruption(s1)
       ELSE close_tip_window(s1)

on_tip_timeout(s) ==
    LET s1 == [s EXCEPT !.realtime_check_timer = None,
                        !.realtime_due = FALSE,
                        !.tip_timer = "inactive",
                        !.tip_timer_at = 0]
    IN IF s1.user_activity_detected
       THEN handle_immediate_interruption(s1)
       ELSE close_tip_window(execute_mode_switch(s1, s1.current_automation_mode))

record_user_activity(s) ==
    IF ~s.user_activity_detected
    THEN [s EXCEPT !.user_activity_detected = TRUE,
                   !.inputs = @ + 1]
    ELSE s

\* ------------------------------------------------ the per-lesson rule ---
\* variant: firing opens no window
trigger_automation_silent(s, target_mode) == s

trigger_automation(s, target_mode) ==
    IF get_current_mode(s) = target_mode THEN s
    ELSE [show_tip_window(s, "confirm", target_mode)
            EXCEPT !.prompts = s.prompts + 1]

\* variant: the session flags survive the lesson change
on_lesson_changed_keeps_flags(s) ==
    LET s1 == [s EXCEPT !.lesson_elapsed = 0,
                        !.inputs = @ + 1,
                        !.armed_stale = TRUE,
                        !.prompts = 0,
                        !.switches = 0,
                        !.switch_mode = None,
                        !.cancelled = FALSE]
        s2 == IF s1.tip_window # None THEN close_tip_window(s1) ELSE s1
    IN [s2 EXCEPT !.previous_lesson_name = s.current_lesson_name]

on_lesson_changed(s) ==
    LET s1 == [s EXCEPT !.lesson_elapsed = 0,
                        !.user_activity_detected = FALSE,
                        !.automation_triggered = FALSE,
                        !.inputs = @ + 1,
                        !.armed_stale = TRUE,
                        !.prompts = 0,
                        !.switches = 0,
                        !.switch_mode = None,
                        !.cancelled = FALSE]
        s2 == IF s1.tip_window # None THEN close_tip_window(s1) ELSE s1
    IN [s2 EXCEPT !.previous_lesson_name = s.current_lesson_name]

\* remaining_seconds is None when the tracker has no resolution: the
\* returned 4-tuple of Nones is still a true value, so line 1865 lets it
\* through, and "None <= int" raises; handle_automation's except clause
\* ends the tick there.
\* variant: the remaining seconds must be below the offset, not at it
should_trigger_below(s, rule, remaining_seconds) ==
    IF rule.time > 0
    THEN s.lesson_elapsed >= rule.time * UnitsPerSecond
    ELSE remaining_seconds < (IF rule.time < 0 THEN 0 - rule.time ELSE rule.time)

should_trigger(s, rule, remaining_seconds) ==
    IF rule.time > 0
    THEN s.lesson_elapsed >= rule.time * UnitsPerSecond
    ELSE remaining_seconds <= (IF rule.time < 0 THEN 0 - rule.time ELSE rule.time)

\* variant: the automation_triggered latch is not consulted
check_automation_trigger_unlatched(s, remaining) ==
    IF s.current_lesson_name = None THEN s
    ELSE IF s.current_lesson_name \notin DOMAIN s.automation_settings THEN s
    ELSE LET rule == s.automation_settings[s.current_lesson_name]
             click_required == rule.click = "True"
             target_mode == rule.mode
         IN IF get_current_mode(s) = target_mode
            THEN [s EXCEPT !.automation_triggered = TRUE]
            ELSE IF rule.time <= 0 /\ remaining = NoRemaining
                 THEN s
                 ELSE IF ~should_trigger(s, rule, remaining) THEN s
                 ELSE IF ~click_required /\ s.user_activity_detected
                 THEN [s EXCEPT !.automation_triggered = TRUE]
                 ELSE [trigger_automation(s, target_mode)
                         EXCEPT !.automation_triggered = TRUE]

\* variant: an absent remaining_seconds compares like a number
check_automation_trigger_compares_none(s, remaining) ==
    IF s.current_lesson_name = None THEN s
    ELSE IF s.automation_triggered THEN s
    ELSE IF s.current_lesson_name \notin DOMAIN s.automation_settings THEN s
    ELSE LET rule == s.automation_settings[s.current_lesson_name]
             click_required == rule.click = "True"
             target_mode == rule.mode
         IN IF get_current_mode(s) = target_mode
            THEN [s EXCEPT !.automation_triggered = TRUE]
            ELSE IF ~should_trigger(s, rule, remaining) THEN s
                 ELSE IF ~click_required /\ s.user_activity_detected
                 THEN [s EXCEPT !.automation_triggered = TRUE]
                 ELSE [trigger_automation(s, target_mode)
                         EXCEPT !.automation_triggered = TRUE]

\* variant: a tick that finds the target mode active leaves the latch open
check_automation_trigger_keeps_looking(s, remaining) ==
    IF s.current_lesson_name = None THEN s
    ELSE IF s.automation_triggered THEN s
    ELSE IF s.current_lesson_name \notin DOMAIN s.automation_settings THEN s
    ELSE LET rule == s.automation_settings[s.current_lesson_name]
             click_required == rule.click = "True"
             target_mode == rule.mode
         IN IF get_current_mode(s) = target_mode
            THEN s
            ELSE IF rule.time <= 0 /\ remaining = NoRemaining
                 THEN s
                 ELSE IF ~should_trigger(s, rule, remaining) THEN s
                 ELSE IF ~click_required /\ s.user_activity_detected
                 THEN [s EXCEPT !.automation_triggered = TRUE]
                 ELSE [trigger_automation(s, target_mode)
                         EXCEPT !.automation_triggered = TRUE]

check_automation_trigger(s, remaining) ==
    IF s.current_lesson_name = None THEN s
    ELSE IF s.automation_triggered THEN s
    ELSE IF s.current_lesson_name \notin DOMAIN s.automation_settings THEN s
    ELSE LET rule == s.automation_settings[s.current_lesson_name]
             click_required == rule.click = "True"
             target_mode == rule.mode
         IN IF get_current_mode(s) = target_mode
            THEN [s EXCEPT !.automation_triggered = TRUE]
            ELSE IF rule.time <= 0 /\ remaining = NoRemaining
                 THEN s
                 ELSE IF ~should_trigger(s, rule, remaining) THEN s
                 ELSE IF ~click_required /\ s.user_activity_detected
                 THEN [s EXCEPT !.automation_triggered = TRUE]
                 ELSE [trigger_automation(s, target_mode)
                         EXCEPT !.automation_triggered = TRUE]

handle_automation(s, name, remaining) ==
    LET s0 == [s EXCEPT !.current_lesson_name = name]
        s1 == IF s0.current_lesson_name # s0.previous_lesson_name
              THEN on_lesson_changed(s0) ELSE s0
    IN check_automation_trigger(s1, remaining)

\* ------------------------------------------------ timeline resolvers ---
\* Times of day are seconds since midnight; datetime.time() drops the
\* date, so a sum that passes midnight starts again at 0.
TimeOf(seconds) == seconds % DaySeconds

\* an activity id is a key of Timeline_Data: its first character is the
\* type ("a" lesson, "f" break), the second the node, the third the
\* sequence number
ActivityIds == [type : {"a", "f"}, node : NodeIndexes, number : 1..MaxNumber]

startswith(activity_id, type) == activity_id.type = type

\* (number, type) as activity_sort_key orders them: "a" sorts before "f"
TypeOrder(type) == IF type = "a" THEN 0 ELSE 1

\* variant: at equal number the break sorts before the lesson
SortsBefore_break_first(x, y) ==
    \/ x.number < y.number
    \/ x.number = y.number /\ TypeOrder(x.type) > TypeOrder(y.type)

SortsBefore(x, y) ==
    \/ x.number < y.number
    \/ x.number = y.number /\ TypeOrder(x.type) < TypeOrder(y.type)

RECURSIVE sorted(_)
sorted(ids) ==
    IF ids = {} THEN << >>
    ELSE LET first == CHOOSE x \in ids : \A y \in ids \ {x} : SortsBefore(x, y)
         IN <<first>> \o sorted(ids \ {first})

\* variant: the keys of the other nodes are kept
node_activities_of_others(timeline, node_index) ==
    sorted({key \in DOMAIN timeline : key.node # node_index})

\* the keys of the requested node, sorted
node_activities(timeline, node_index) ==
    sorted({key \in DOMAIN timeline : key.node = node_index})

\* current_time_accumulated before the i-th activity, counted in seconds
\* from today's midnight (a datetime: it does not wrap)
RECURSIVE accumulated(_, _, _, _)
accumulated(timeline, activities, node_start_time, i) ==
    IF i = 1 THEN node_start_time
    ELSE accumulated(timeline, activities, node_start_time, i - 1)
         + timeline[activities[i - 1]] * SecondsPerMinute

start_time(timeline, activities, node_start_time, i) ==
    TimeOf(accumulated(timeline, activities, node_start_time, i))

\* variant: every activity is taken to begin at the node's start
end_time_from_anchor(timeline, activities, node_start_time, i) ==
    TimeOf(node_start_time + timeline[activities[i]] * SecondsPerMinute)

end_time(timeline, activities, node_start_time, i) ==
    TimeOf(accumulated(timeline, activities, node_start_time, i)
           + timeline[activities[i]] * SecondsPerMinute)

node_end_time(timeline, activities, node_start_time) ==
    TimeOf(accumulated(timeline, activities, node_start_time,
                       Len(activities) + 1))

\* the positions whose [start, end) window holds the time
Containing(timeline, activities, node_start_time, time) ==
    {i \in 1..Len(activities) :
        /\ start_time(timeline, activities, node_start_time, i) <= time
        /\ time < end_time(timeline, activities, node_start_time, i)}

Min(S) == CHOOSE x \in S : \A y \in S : x <= y

Max(S) == CHOOSE x \in S : \A y \in S : y <= x

\* the lesson entries at the given positions
Courses(activities, positions) ==
    {i \in positions : startswith(activities[i], "a")}

\* variant: the entry that holds the time is returned whatever its type
calculate_current_course_containing(timeline, part, time) ==
    LET node_start_time == part.start
        activities == node_activities(timeline, part.node)
        all == 1..Len(activities)
    IN IF node_start_time = NoStart THEN NoActivity
       ELSE IF activities = << >> THEN NoActivity
       ELSE IF time < node_start_time
       THEN IF Courses(activities, all) = {} THEN NoActivity
            ELSE activities[Min(Courses(activities, all))]
       ELSE IF time >= node_end_time(timeline, activities, node_start_time)
       THEN NoActivity
       ELSE LET hit == Containing(timeline, activities, node_start_time, time)
            IN IF hit # {} THEN activities[Min(hit)]
               ELSE IF Courses(activities, all) = {} THEN NoActivity
               ELSE activities[Max(Courses(activities, all))]

calculate_current_course(timeline, part, time) ==
    LET node_start_time == part.start
        activities == node_activities(timeline, part.node)
        all == 1..Len(activities)
    IN IF node_start_time = NoStart THEN NoActivity
       ELSE IF activities = << >> THEN NoActivity
       ELSE IF time < node_start_time
       THEN IF Courses(activities, all) = {} THEN NoActivity
            ELSE activities[Min(Courses(activities, all))]
       ELSE IF time >= node_end_time(timeline, activities, node_start_time)
       THEN NoActivity
       ELSE LET hit == Containing(timeline, activities, node_start_time, time)
                i == Min(hit)
                next == Courses(activities, (i + 1)..Len(activities))
                current_activity_id ==
                    IF hit = {} THEN NoActivity
                    ELSE IF startswith(activities[i], "f")
                    THEN IF next = {} THEN NoActivity
                         ELSE activities[Min(next)]
                    ELSE activities[i]
            IN IF current_activity_id # NoActivity THEN current_activity_id
               ELSE IF Courses(activities, all) = {} THEN NoActivity
               ELSE activities[Max(Courses(activities, all))]

TimeInfo(total, remaining, id, state) ==
    [total_seconds |-> total, remaining_seconds |-> remaining,
     current_activity_id |-> id, state |-> state]

NoTimeInfo == TimeInfo(NoTotal, NoRemaining, NoActivity, NoState)

\* variant: the difference is dropped
NothingLeft(n) == 0

NonNegative(n) == IF n > 0 THEN n ELSE 0

\* variant: the host's State is returned for the entry that was found
get_current_activity_time_info_host_state(timeline, part, time, state) ==
    LET node_start_time == part.start
        activities == node_activities(timeline, part.node)
    IN IF node_start_time = NoStart THEN NoTimeInfo
       ELSE IF activities = << >> THEN NoTimeInfo
       ELSE IF time < node_start_time
       THEN TimeInfo(NoTotal, NonNegative(node_start_time - time),
                     activities[1], 0)
       ELSE IF time >= node_end_time(timeline, activities, node_start_time)
       THEN NoTimeInfo
       ELSE LET hit == Containing(timeline, activities, node_start_time, time)
                i == Min(hit)
            IN IF hit = {} THEN NoTimeInfo
               ELSE TimeInfo(
                      timeline[activities[i]] * SecondsPerMinute,
                      NonNegative(end_time(timeline, activities,
                                           node_start_time, i) - time),
                      activities[i],
                      state)

\* variant: before the node starts the first lesson entry is returned
get_current_activity_time_info_first_course(timeline, part, time, state) ==
    LET node_start_time == part.start
        activities == node_activities(timeline, part.node)
        courses == Courses(activities, 1..Len(activities))
    IN IF node_start_time = NoStart THEN NoTimeInfo
       ELSE IF activities = << >> THEN NoTimeInfo
       ELSE IF time < node_start_time
       THEN TimeInfo(NoTotal, NonNegative(node_start_time - time),
                     IF courses = {} THEN activities[1]
                     ELSE activities[Min(courses)], 0)
       ELSE IF time >= node_end_time(timeline, activities, node_start_time)
       THEN NoTimeInfo
       ELSE LET hit == Containing(timeline, activities, node_start_time, time)
                i == Min(hit)
            IN IF hit = {} THEN NoTimeInfo
               ELSE TimeInfo(
                      timeline[activities[i]] * SecondsPerMinute,
                      NonNegative(end_time(timeline, activities,
                                           node_start_time, i) - time),
                      activities[i],
                      IF startswith(activities[i], "f") THEN 0 ELSE 1)

get_current_activity_time_info(timeline, part, time, state) ==
    LET node_start_time == part.start
        activities == node_activities(timeline, part.node)
    IN IF node_start_time = NoStart THEN NoTimeInfo
       ELSE IF activities = << >> THEN NoTimeInfo
       ELSE IF time < node_start_time
       THEN TimeInfo(NoTotal, NonNegative(node_start_time - time),
                     activities[1], 0)
       ELSE IF time >= node_end_time(timeline, activities, node_start_time)
       THEN NoTimeInfo
       ELSE LET hit == Containing(timeline, activities, node_start_time, time)
                i == Min(hit)
            IN IF hit = {} THEN NoTimeInfo
               ELSE TimeInfo(
                      timeline[activities[i]] * SecondsPerMinute,
                      NonNegative(end_time(timeline, activities,
                                           node_start_time, i) - time),
                      activities[i],
                      IF startswith(activities[i], "f") THEN 0 ELSE 1)

\* ------------------------------------------------ pointer detector ---
Monitor == [
    mouse_hidden |-> mouse_hidden,
    mouse_stationary_time |-> mouse_stationary_time,
    last_mouse_position |-> last_mouse_position,
    mouse_hide_timer |-> mouse_hide_timer,
    hide_signals |-> hide_signals,
    show_signals |-> show_signals]

ApplyMonitor(m) ==
    /\ mouse_hidden' = m.mouse_hidden
    /\ mouse_stationary_time' = m.mouse_stationary_time
    /\ last_mouse_position' = m.last_mouse_position
    /\ mouse_hide_timer' = m.mouse_hide_timer
    /\ hide_signals' = m.hide_signals
    /\ show_signals' = m.show_signals

init_mouse_detection(m) ==
    [m EXCEPT !.mouse_hidden = FALSE,
              !.mouse_stationary_time = 0,
              !.last_mouse_position = NoPosition,
              !.mouse_hide_timer = "active",
              !.hide_signals = 0,
              !.show_signals = 0]

stop_mouse_detection(m) ==
    [m EXCEPT !.mouse_hide_timer = IF @ = "active" THEN "stopped" ELSE @,
              !.mouse_hidden = FALSE,
              !.mouse_stationary_time = 0,
              !.last_mouse_position = NoPosition,
              !.hide_signals = 0,
              !.show_signals = 0]

\* setCursor on a widget that stop() deleted raises; the except clause
\* swallows it and mouse_hidden keeps its value
hide_mouse(m, s) ==
    IF m.mouse_hidden THEN m
    ELSE IF s.is_blackboard_mode /\ s.blackboard_widget # None
    THEN IF s.blackboard_widget = "deleted" THEN m
         ELSE [m EXCEPT !.mouse_hidden = TRUE, !.hide_signals = @ + 1]
    ELSE IF s.is_whiteboard_mode /\ s.whiteboard_widget # None
    THEN IF s.whiteboard_widget = "deleted" THEN m
         ELSE [m EXCEPT !.mouse_hidden = TRUE, !.hide_signals = @ + 1]
    ELSE m

\* variant: only the blackboard's cursor is restored
show_mouse_blackboard_only(m, s) ==
    IF ~m.mouse_hidden THEN m
    ELSE IF s.is_blackboard_mode /\ s.blackboard_widget # None
    THEN IF s.blackboard_widget = "deleted" THEN m
         ELSE [m EXCEPT !.mouse_hidden = FALSE, !.show_signals = @ + 1]
    ELSE m

show_mouse(m, s) ==
    IF ~m.mouse_hidden THEN m
    ELSE IF s.is_blackboard_mode /\ s.blackboard_widget # None
    THEN IF s.blackboard_widget = "deleted" THEN m
         ELSE [m EXCEPT !.mouse_hidden = FALSE, !.show_signals = @ + 1]
    ELSE IF s.is_whiteboard_mode /\ s.whiteboard_widget # None
    THEN IF s.whiteboard_widget = "deleted" THEN m
         ELSE [m EXCEPT !.mouse_hidden = FALSE, !.show_signals = @ + 1]
    ELSE m

\* variant: the rest time must exceed the delay, not reach it
check_mouse_movement_late(m, s, current_pos) ==
    IF ~s.is_blackboard_mode /\ ~s.is_whiteboard_mode THEN m
    ELSE IF current_pos = NoPosition THEN m
    ELSE IF m.last_mouse_position = NoPosition
    THEN [m EXCEPT !.last_mouse_position = current_pos]
    ELSE IF current_pos # m.last_mouse_position
    THEN LET m1 == [m EXCEPT !.mouse_stationary_time = 0,
                             !.last_mouse_position = current_pos,
                             !.hide_signals = 0]
         IN IF m1.mouse_hidden THEN show_mouse(m1, s) ELSE m1
    ELSE LET m1 == [m EXCEPT !.mouse_stationary_time = @ + mouse_check_interval,
                             !.show_signals = 0]
         IN IF m1.mouse_stationary_time > mouse_hide_delay /\ ~m1.mouse_hidden
            THEN hide_mouse(m1, s)
            ELSE m1

\* mouse_stationary_time is kept in ms: the code adds 0.1 s per sample
\* and compares with 2.0 s, and the floating sums order as the integers
\* do (nineteen additions give 1.9000000000000006, twenty
\* 2.0000000000000004)
check_mouse_movement(m, s, current_pos) ==
    IF ~s.is_blackboard_mode /\ ~s.is_whiteboard_mode THEN m
    ELSE IF current_pos = NoPosition THEN m
    ELSE IF m.last_mouse_position = NoPosition
    THEN [m EXCEPT !.last_mouse_position = current_pos]
    ELSE IF current_pos # m.last_mouse_position
    THEN LET m1 == [m EXCEPT !.mouse_stationary_time = 0,
                             !.last_mouse_position = current_pos,
                             !.hide_signals = 0]
         IN IF m1.mouse_hidden THEN show_mouse(m1, s) ELSE m1
    ELSE LET m1 == [m EXCEPT !.mouse_stationary_time = @ + mouse_check_interval,
                             !.show_signals = 0]
         IN IF m1.mouse_stationary_time >= mouse_hide_delay /\ ~m1.mouse_hidden
            THEN hide_mouse(m1, s)
            ELSE m1

\* what the overlay handlers do to the detector: init_blackboard_ui and
\* init_whiteboard_ui start it, close_* shows the pointer and stops it,
\* the end of the fade-out stops it again
show_overlay_detection(m, already) ==
    IF already THEN m ELSE init_mouse_detection(m)

close_overlay_detection(m, s, open) ==
    IF ~open THEN m ELSE stop_mouse_detection(show_mouse(m, s))

\* ------------------------------------------------ GlobalEventFilter ---
Filter == [
    running |-> running, poll_timer |-> poll_timer,
    last_mouse_pos |-> last_mouse_pos, last_key_state |-> last_key_state,
    emitted |-> emitted]

ApplyFilter(f) ==
    /\ running' = f.running
    /\ poll_timer' = f.poll_timer
    /\ last_mouse_pos' = f.last_mouse_pos
    /\ last_key_state' = f.last_key_state
    /\ emitted' = f.emitted

\* one poll of the operating system: the pointer position, the state of
\* the mouse buttons as the mouse branch queries it ("error" when that
\* call raises) and the key states; the buttons are keys too
Samples ==
    {sample \in [pos : PositionInputs \cup {NoPosition},
                  button : {"held", "up", "error"},
                  keys : KeyStateInputs \cup {NoKeyStates}] :
        sample.keys # NoKeyStates
          => sample.button = (IF sample.keys[VK_LBUTTON] THEN "held" ELSE "up")}

start_listening(f, sample) ==
    IF f.running THEN f
    ELSE [f EXCEPT !.last_mouse_pos = sample.pos,
                   !.last_key_state = sample.keys,
                   !.poll_timer = "active",
                   !.running = TRUE]

\* the pointer was found at another place than in the last poll
Displaced(f, sample) ==
    /\ sample.pos # NoPosition
    /\ f.last_mouse_pos # NoPosition
    /\ sample.pos # f.last_mouse_pos

\* the codes pressed in this poll and not in the last one
Pressed(f, sample) ==
    {vk_code \in DOMAIN sample.keys :
        /\ sample.keys[vk_code]
        /\ ~(vk_code \in DOMAIN f.last_key_state /\ f.last_key_state[vk_code])}

\* variant: a displacement notifies whether a button is held or not
check_user_activity_any_move(f, sample) ==
    IF Displaced(f, sample) /\ sample.button = "error"
    THEN [f EXCEPT !.emitted = << >>]
    ELSE LET mouse == IF Displaced(f, sample) THEN <<"mouse">> ELSE << >>
             key == IF /\ DOMAIN f.last_key_state # {}
                       /\ Pressed(f, sample) \ IgnoredKeys # {}
                    THEN <<"key">> ELSE << >>
         IN [f EXCEPT !.emitted = mouse \o key,
                      !.last_mouse_pos = sample.pos,
                      !.last_key_state = sample.keys]

\* variant: a failed key-state query ends the polling
check_user_activity_gives_up(f, sample) ==
    IF Displaced(f, sample) /\ sample.button = "error"
    THEN [f EXCEPT !.emitted = << >>]
    ELSE LET mouse == IF Displaced(f, sample) /\ sample.button = "held"
                      THEN <<"mouse">> ELSE << >>
             key == IF /\ DOMAIN f.last_key_state # {}
                       /\ Pressed(f, sample) \ IgnoredKeys # {}
                    THEN <<"key">> ELSE << >>
         IN [f EXCEPT !.emitted = mouse \o key,
                      !.last_mouse_pos = sample.pos,
                      !.last_key_state = sample.keys,
                      !.poll_timer = IF sample.keys = NoKeyStates
                                     THEN None ELSE @]

\* an exception of the button query leaves through the except clause
\* before the state is updated
check_user_activity(f, sample) ==
    IF Displaced(f, sample) /\ sample.button = "error"
    THEN [f EXCEPT !.emitted = << >>]
    ELSE LET mouse == IF Displaced(f, sample) /\ sample.button = "held"
                      THEN <<"mouse">> ELSE << >>
             key == IF /\ DOMAIN f.last_key_state # {}
                       /\ Pressed(f, sample) \ IgnoredKeys # {}
                    THEN <<"key">> ELSE << >>
         IN [f EXCEPT !.emitted = mouse \o key,
                      !.last_mouse_pos = sample.pos,
                      !.last_key_state = sample.keys]

stop_listening(f) ==
    IF ~f.running THEN f
    ELSE [f EXCEPT !.running = FALSE, !.poll_timer = None, !.emitted = << >>]

\* ------------------------------------------------------------ shutdown ---
stop(s) ==
    LET s1 == [s EXCEPT !.stopped = TRUE,
                        !.inputs = @ + 1,
                        !.blackboard_widget =
                            IF s.is_blackboard_mode /\ @ # None THEN "deleted" ELSE @,
                        !.whiteboard_widget =
                            IF s.is_whiteboard_mode /\ @ # None THEN "deleted" ELSE @]
        s2 == close_tip_window(s1)
    IN [s2 EXCEPT !.tip_close_animation_group = None, !.close_at = 0]

\* ------------------------------------------------------------- actions ---
InitEngine ==
    /\ lesson_elapsed = 0
    /\ stopped = FALSE
    /\ current_lesson_name = None
    /\ previous_lesson_name = None
    /\ user_activity_detected = FALSE
    /\ automation_triggered = FALSE
    /\ tip_window = None
    /\ tip_timer = None
    /\ tip_timer_at = 0
    /\ realtime_check_timer = None
    /\ realtime_due = FALSE
    /\ tip_close_animation_group = None
    /\ close_at = 0
    /\ current_automation_mode = None
    /\ is_blackboard_mode = FALSE
    /\ is_whiteboard_mode = FALSE
    /\ blackboard_widget = None
    /\ whiteboard_widget = None
    /\ blackboard_animation = None
    /\ blackboard_anim_at = 0
    /\ whiteboard_animation = None
    /\ whiteboard_anim_at = 0
    /\ shots = EmptyBag
    /\ inputs = 0
    /\ prompts = 0
    /\ switches = 0
    /\ switch_mode = None
    /\ armed_stale = FALSE
    /\ cancelled = FALSE

\* no timeline in the context and nothing resolved yet
InitContext ==
    /\ timeline_data = << >>
    /\ current_part = [start |-> NoStart, node |-> 0]
    /\ current_time = 0
    /\ current_course_id = NoActivity
    /\ time_info = NoTimeInfo
    /\ resolved = 0

\* the detector as __init__ leaves it (lines 260-263)
InitMonitor ==
    /\ mouse_hidden = FALSE
    /\ mouse_stationary_time = 0
    /\ last_mouse_position = NoPosition
    /\ mouse_hide_timer = None
    /\ hide_signals = 0
    /\ show_signals = 0

\* the filter as GlobalEventFilter.__init__ leaves it (lines 52-55)
InitListener ==
    /\ running = FALSE
    /\ poll_timer = None
    /\ last_mouse_pos = NoPosition
    /\ last_key_state = << >>
    /\ emitted = << >>

\* the progress values as __init__ leaves them (lines 225-226)
InitDisplay ==
    /\ current_blackboard_progress = 0
    /\ current_whiteboard_progress = 0

Init ==
    /\ automation_settings \in [{"A"} -> RuleSet]
    /\ InitEngine
    /\ InitContext
    /\ InitMonitor
    /\ InitListener
    /\ InitDisplay

\* update(): the host's tick; the resolved lesson name and the tracker's
\* remaining seconds are the inputs read from the context.
Update ==
    /\ ~stopped
    /\ \E name \in LessonInputs, remaining \in RemainingInputs :
          /\ name # previous_lesson_name => inputs < MaxInputs
          /\ Apply(handle_automation(Self, name, remaining))

\* GlobalEventFilter emits user_activity_detected -> record_user_activity
RecordUserActivity ==
    /\ ~stopped
    /\ ~user_activity_detected
    /\ inputs < MaxInputs
    /\ Apply(record_user_activity(Self))

RealtimePoll ==
    /\ realtime_check_timer = "active"
    /\ Apply(check_realtime_user_activity([Self EXCEPT !.realtime_due = FALSE]))

TipTimeout ==
    /\ tip_timer = "active"
    /\ tip_timer_at = 0
    /\ Apply(on_tip_timeout(Self))

CloseAnimFinished ==
    /\ tip_close_animation_group = "running"
    /\ close_at = 0
    /\ Apply(finish_close_tip_window(Self))

ShotShowInterruptionSuccess ==
    LET sh == Shot("show_interruption_success", 0)
    IN /\ BagIn(sh, shots)
       /\ Apply(show_interruption_success([Self EXCEPT !.shots = @ (-) SetToBag({sh})]))

ShotCloseTipWindow ==
    LET sh == Shot("close_tip_window", 0)
    IN /\ BagIn(sh, shots)
       /\ Apply(close_tip_window([Self EXCEPT !.shots = @ (-) SetToBag({sh})]))

BlackboardAnimFinished ==
    /\ blackboard_animation = "closing"
    /\ blackboard_anim_at = 0
    /\ Apply(on_blackboard_animation_finished(Self))

WhiteboardAnimFinished ==
    /\ whiteboard_animation = "closing"
    /\ whiteboard_anim_at = 0
    /\ Apply(on_whiteboard_animation_finished(Self))

Click(s) == [s EXCEPT !.inputs = @ + 1]

OnDarkClicked ==
    /\ ~stopped /\ inputs < MaxInputs
    /\ Apply(show_blackboard(Click(Self)))

OnLightClicked ==
    /\ ~stopped /\ inputs < MaxInputs
    /\ Apply(show_whiteboard(Click(Self)))

CloseBlackboardClicked ==
    /\ blackboard_widget = "live" /\ inputs < MaxInputs
    /\ Apply(close_blackboard(Click(Self)))

CloseWhiteboardClicked ==
    /\ whiteboard_widget = "live" /\ inputs < MaxInputs
    /\ Apply(close_whiteboard(Click(Self)))

SwitchToWhiteboardClicked ==
    /\ blackboard_widget = "live" /\ inputs < MaxInputs
    /\ Apply(switch_to_whiteboard_from_blackboard(Click(Self)))

SwitchToBlackboardClicked ==
    /\ whiteboard_widget = "live" /\ inputs < MaxInputs
    /\ Apply(switch_to_blackboard_from_whiteboard(Click(Self)))

Stop ==
    /\ ~stopped
    /\ inputs < MaxInputs
    /\ Apply(stop(Self))

TimerDue ==
    \/ tip_timer = "active" /\ tip_timer_at = 0
    \/ tip_close_animation_group = "running" /\ close_at = 0
    \/ \E sh \in BagToSet(shots) : sh.at = 0
    \/ blackboard_animation = "closing" /\ blackboard_anim_at = 0
    \/ whiteboard_animation = "closing" /\ whiteboard_anim_at = 0
    \/ realtime_check_timer = "active" /\ realtime_due

\* time.time() - lesson_start_time is read at one place only (line 1873),
\* by a rule with a positive "time" that has not latched yet, and compared
\* with that "time": the difference is advanced while it can still be read
\* and still change the comparison.
ElapsedRead ==
    /\ ~automation_triggered
    /\ previous_lesson_name \in DOMAIN automation_settings
    /\ automation_settings[previous_lesson_name].time > 0
    /\ lesson_elapsed < automation_settings[previous_lesson_name].time * UnitsPerSecond

Dec(n) == IF n > 0 THEN n - 1 ELSE 0

\* every copy of every pending one-shot moves one unit closer
AgeShots(b) ==
    LET old == BagToSet(b)
        new == {Shot(sh.fn, sh.at - 1) : sh \in old}
    IN [n \in new |-> b[Shot(n.fn, n.at + 1)]]

AdvanceTime ==
    /\ ~TimerDue
    /\ Apply([Self EXCEPT !.lesson_elapsed = IF ElapsedRead THEN @ + 1 ELSE @,
                          !.tip_timer_at = Dec(@),
                          !.close_at = Dec(@),
                          !.blackboard_anim_at = Dec(@),
                          !.whiteboard_anim_at = Dec(@),
                          !.shots = AgeShots(@),
                          !.realtime_due = (realtime_check_timer = "active")])

Next ==
    \/ Update
    \/ RecordUserActivity
    \/ RealtimePoll
    \/ TipTimeout
    \/ CloseAnimFinished
    \/ ShotShowInterruptionSuccess
    \/ ShotCloseTipWindow
    \/ BlackboardAnimFinished
    \/ WhiteboardAnimFinished
    \/ OnDarkClicked
    \/ OnLightClicked
    \/ CloseBlackboardClicked
    \/ CloseWhiteboardClicked
    \/ SwitchToWhiteboardClicked
    \/ SwitchToBlackboardClicked
    \/ Stop
    \/ AdvanceTime

Spec == Init /\ [][Next]_vars

TypeOK ==
    /\ lesson_elapsed \in 0..UnitsPerSecond
    /\ current_lesson_name \in LessonInputs
    /\ previous_lesson_name \in LessonInputs
    /\ tip_window \in {None, "confirm", "notice"}
    /\ tip_timer \in {None, "active", "inactive"}
    /\ tip_timer_at \in 0..TipDeadline
    /\ realtime_check_timer \in {None, "active"}
    /\ tip_close_animation_group \in {None, "running"}
    /\ close_at \in 0..CloseAnimTime
    /\ current_automation_mode \in Modes \cup {None}
    /\ blackboard_widget \in {None, "live", "deleted"}
    /\ whiteboard_widget \in {None, "live", "deleted"}
    /\ inputs \in 0..MaxInputs

\* ------------------------------------------- the resolvers on their own ---
\* Timeline_Data: some activities of node 1 with their minutes, with or
\* without an activity of node 2 beside them
NodeKeys(node_index) == {key \in ActivityIds : key.node = node_index}

OtherNode == [type |-> "f", node |-> 2, number |-> 1]

TimelineInputs ==
    UNION {[keys \cup other -> DurationInputs] :
             keys \in SUBSET NodeKeys(1), other \in {{}, {OtherNode}}}

\* node anchors in the morning and two minutes before midnight
StartInputs == {8 * 60 * SecondsPerMinute, DaySeconds - 2 * SecondsPerMinute}

\* the minutes a node of that many activities can last
MaxNodeMinutes == 2 * MaxNumber * Max(DurationInputs)

\* Current_Time: every minute from one before the anchor to one after the
\* longest node, and the second before each
TimeInputs(node_start_time) ==
    {TimeOf(node_start_time + DaySeconds + minute * SecondsPerMinute - before) :
        minute \in -1..(MaxNodeMinutes + 1), before \in {0, 1}}

InitResolver ==
    /\ automation_settings = << >>
    /\ InitEngine
    /\ timeline_data \in TimelineInputs
    /\ \/ /\ current_part \in [start : StartInputs, node : NodeIndexes]
          /\ current_time \in TimeInputs(current_part.start)
       \/ /\ current_part \in [start : {NoStart}, node : NodeIndexes]
          /\ current_time = 0
    /\ current_course_id = NoActivity
    /\ time_info = NoTimeInfo
    /\ resolved = 0
    /\ InitMonitor
    /\ InitListener
    /\ InitDisplay

\* update_current_course_highlight
UpdateCurrentCourseHighlight ==
    /\ resolved = 0
    /\ current_course_id' =
          calculate_current_course(timeline_data, current_part, current_time)
    /\ resolved' = 1
    /\ UNCHANGED <<engine, monitor, listener, display,
                   timeline_data, current_part, current_time, time_info>>

\* update_blackboard_countdown; State is the host's own lesson/break flag
UpdateCountdown ==
    /\ resolved = 1
    /\ \E state \in {0, 1} :
          time_info' = get_current_activity_time_info(timeline_data,
                           current_part, current_time, state)
    /\ resolved' = 2
    /\ UNCHANGED <<engine, monitor, listener, display,
                   timeline_data, current_part, current_time,
                   current_course_id>>

NextResolver == UpdateCurrentCourseHighlight \/ UpdateCountdown

SpecResolver == InitResolver /\ [][NextResolver]_vars

\* ------------------------------------------------- shared vocabulary ---
\* the engine waits on an open confirmation prompt: window, deadline timer
\* and realtime poll are all live
ArmedIn(s) ==
    /\ s.tip_window = "confirm"
    /\ s.tip_timer = "active"
    /\ s.realtime_check_timer = "active"

ArmedWaiting == ArmedIn(Self)

\* no window and neither timer: nothing of a prompt is left
IdleIn(s) ==
    /\ s.tip_window = None
    /\ s.tip_timer = None
    /\ s.realtime_check_timer = None

Idle == IdleIn(Self)

HasRule == previous_lesson_name \in DOMAIN automation_settings

Rule == automation_settings[previous_lesson_name]

\* the overlay flags read as get_current_mode reads them
ModeIs(m) ==
    \/ m = "blackboard" /\ is_blackboard_mode
    \/ m = "whiteboard" /\ ~is_blackboard_mode /\ is_whiteboard_mode
    \/ m = "none" /\ ~is_blackboard_mode /\ ~is_whiteboard_mode

\* a step in which execute_mode_switch was called
SwitchCalled == switches' = switches + 1

\* the state an update tick leaves when it reads this lesson name and
\* this remaining time
Tick(name, remaining) == handle_automation(Self, name, remaining)

\* what check_automation_trigger finds in such a tick, after
\* on_lesson_changed (if the name differs) has reset the session
TickTriggered(name) == name = previous_lesson_name /\ automation_triggered

TickActivity(name) == name = previous_lesson_name /\ user_activity_detected

TickPrompts(name) == IF name = previous_lesson_name THEN prompts ELSE 0

TickSwitches(name) == IF name = previous_lesson_name THEN switches ELSE 0

TickElapsed(name) == IF name = previous_lesson_name THEN lesson_elapsed ELSE 0

\* the tick evaluates the rule of the reported lesson: the rule exists,
\* has not latched and the overlay is not in its mode yet
RuleEvaluated(name) ==
    /\ name \in DOMAIN automation_settings
    /\ ~TickTriggered(name)
    /\ ~ModeIs(automation_settings[name].mode)

\* the trigger condition of lines 1882-1890 as that tick computes it
TriggerCondition(name, remaining) ==
    /\ name \in DOMAIN automation_settings
    /\ LET rule == automation_settings[name]
       IN IF rule.time > 0
          THEN TickElapsed(name) >= rule.time * UnitsPerSecond
          ELSE remaining # NoRemaining /\ remaining <= 0 - rule.time

\* a step in which show_tip_window ran: its two callers are
\* trigger_automation, in an update tick, and show_interruption_success
WindowOpened ==
    \/ Update /\ prompts' = TickPrompts(current_lesson_name') + 1
    \/ ShotShowInterruptionSuccess

\* ---------------------------------------------------------------- C1 ---
\* C1 as stated: under a rule with click = "True" the prompt of the
\* current lesson is never cancelled by user activity.
C1_ClickNeverCancelled == (HasRule /\ Rule.click = "True") => ~cancelled

\* C1, amended: under a rule with click = "True" user activity reported
\* while ArmedWaiting cancels the prompt just as under click = "False":
\* the poll or the deadline that finds the activity stops both timers,
\* starts closing the window and does not call execute_mode_switch; and
\* execute_mode_switch is never called in a step that finds activity
\* recorded.
C1_ActivityCancels ==
    [][/\ (HasRule /\ Rule.click = "True" /\ SwitchCalled)
            => ~user_activity_detected
       /\ (/\ HasRule /\ Rule.click = "True"
           /\ ArmedWaiting /\ user_activity_detected
           /\ (RealtimePoll \/ TipTimeout))
            => /\ switches' = switches
               /\ cancelled'
               /\ tip_timer' = None
               /\ realtime_check_timer' = None
               /\ tip_close_animation_group' = "running"]_vars

C1_Witness ==
    /\ HasRule /\ Rule.click = "True"
    /\ cancelled /\ switches = 0 /\ ~stopped
    /\ automation_triggered

\* ---------------------------------------------------------------- C2 ---
\* C2: while the plugin runs, execute_mode_switch is never called by a
\* deadline that was armed before the latest lesson change (armed_stale:
\* the lesson changed and no window was opened since).
C2_NoStaleSwitch == [][(SwitchCalled /\ ~stopped) => ~armed_stale]_vars

\* ---------------------------------------------------------------- C3 ---
\* C3: after stop() no callback calls execute_mode_switch and none opens
\* a window.
C3_QuietAfterStop ==
    [][stopped => (~SwitchCalled /\ ~WindowOpened)]_vars

\* ---------------------------------------------------------------- C4 ---
\* C4: under a rule with click = "False", once user activity has
\* cancelled the prompt, execute_mode_switch is not called for the rest
\* of the lesson occupancy and automation_triggered stays true; the step
\* that cancels leaves both timers stopped.
C4_CancelledNeverSwitches ==
    [][/\ (HasRule /\ Rule.click = "False" /\ cancelled)
            => (switches = 0 /\ automation_triggered)
       /\ (HasRule /\ Rule.click = "False" /\ ~cancelled /\ cancelled')
            => (tip_timer' = None /\ realtime_check_timer' = None)]_vars

\* ---------------------------------------------------------------- C5 ---
\* C5: the deadline that fires while ArmedWaiting with no activity
\* recorded calls execute_mode_switch once, with the mode of the current
\* lesson's rule, starts closing the window, leaves neither timer active
\* and automation_triggered true.
C5_DeadlineCommits ==
    [][(ArmedWaiting /\ ~user_activity_detected /\ TipTimeout)
          => /\ HasRule
             /\ SwitchCalled
             /\ switch_mode' = Rule.mode
             /\ automation_triggered'
             /\ tip_close_animation_group' = "running"
             /\ realtime_check_timer' = None
             /\ tip_timer' = "inactive"]_vars

C5_Witness ==
    /\ HasRule /\ ~stopped /\ ~armed_stale
    /\ switches = 1 /\ switch_mode = Rule.mode
    /\ tip_window = "confirm" /\ tip_timer = "inactive"
    /\ tip_close_animation_group = "running"

\* ---------------------------------------------------------------- C6 ---
\* C6 as stated: an update tick that finds the engine Idle, the rule not
\* yet triggered, the overlay not in the rule's mode and the trigger
\* condition true opens the confirmation window and enters ArmedWaiting,
\* whatever activity was recorded before.
C6_AlwaysArms ==
    ~stopped =>
      \A name \in LessonInputs, remaining \in RemainingInputs :
        (Idle /\ RuleEvaluated(name) /\ TriggerCondition(name, remaining))
          => LET after == Tick(name, remaining)
             IN ArmedIn(after) /\ after.prompts = 1

\* C6, amended: such a tick opens the confirmation window and enters
\* ArmedWaiting, for the first time in the occupancy, provided the rule
\* has click = "True" or no user activity has been recorded since the
\* lesson began; under click = "False" with activity recorded the tick
\* only latches automation_triggered and opens nothing.
C6_ArmsUnlessSuppressed ==
    ~stopped =>
      \A name \in LessonInputs, remaining \in RemainingInputs :
        (Idle /\ RuleEvaluated(name) /\ TriggerCondition(name, remaining))
          => LET after == Tick(name, remaining)
                 rule == automation_settings[name]
             IN IF rule.click = "True" \/ ~TickActivity(name)
                THEN /\ ArmedIn(after)
                     /\ after.prompts = 1 /\ TickPrompts(name) = 0
                     /\ after.current_automation_mode = rule.mode
                     /\ after.automation_triggered
                ELSE /\ IdleIn(after)
                     /\ after.prompts = TickPrompts(name)
                     /\ after.automation_triggered

C6_Witness ==
    /\ ArmedWaiting /\ HasRule /\ ~stopped
    /\ prompts = 1 /\ tip_timer_at = TipDeadline
    /\ tip_close_animation_group = None
    /\ current_automation_mode = Rule.mode

\* ---------------------------------------------------------------- C7 ---
\* C7: between two lesson-name changes check_automation_trigger opens at
\* most one confirmation prompt, and once it has opened one the rule is
\* latched (automation_triggered), however many update ticks follow.
C7_OnePromptPerOccupancy ==
    /\ prompts <= 1
    /\ prompts = 1 => automation_triggered

C7_Witness ==
    /\ prompts = 1 /\ cancelled /\ Idle /\ ~stopped
    /\ HasRule /\ ~ModeIs(Rule.mode)
    /\ current_lesson_name = previous_lesson_name

\* ---------------------------------------------------------------- C8 ---
\* C8: an update tick that evaluates a rule while the overlay already is
\* in the rule's mode opens no window, calls no execute_mode_switch and
\* latches automation_triggered.
C8_AlreadyInMode ==
    ~stopped =>
      \A name \in LessonInputs, remaining \in RemainingInputs :
        (/\ name \in DOMAIN automation_settings
         /\ ~TickTriggered(name)
         /\ ModeIs(automation_settings[name].mode))
          => LET after == Tick(name, remaining)
             IN /\ after.automation_triggered
                /\ after.prompts = TickPrompts(name)
                /\ after.switches = TickSwitches(name)
                /\ after.tip_window = tip_window
                /\ after.tip_timer = tip_timer
                /\ after.tip_timer_at = tip_timer_at

C8_Witness ==
    /\ HasRule /\ Rule.mode # "none" /\ ModeIs(Rule.mode)
    /\ automation_triggered /\ prompts = 0 /\ switches = 0
    /\ Idle /\ ~cancelled /\ ~stopped

\* ---------------------------------------------------------------- C9 ---
\* C9: whenever show_tip_window opens a window, the window that was open
\* before has been closed: none is open when the step begins and no close
\* of an earlier window is still pending when it ends.
C9_PriorClosedFirst ==
    [][WindowOpened
          => (tip_window = None /\ tip_close_animation_group' = None)]_vars

\* --------------------------------------------------------------- C10 ---
\* C10: an update tick that reports another lesson name restarts the
\* session: the elapsed time counts from this tick, no user activity is
\* recorded, previous_lesson_name is the new name, an open window has its
\* close started, and automation_triggered is false again unless the new
\* lesson's own rule latched it in the same tick.
C10_LessonChangeResets ==
    ~stopped =>
      \A name \in LessonInputs, remaining \in RemainingInputs :
        name # previous_lesson_name
          => LET after == Tick(name, remaining)
             IN /\ after.lesson_elapsed = 0
                /\ ~after.user_activity_detected
                /\ after.previous_lesson_name = name
                /\ after.current_lesson_name = name
                /\ tip_window # None
                     => /\ after.tip_close_animation_group = "running"
                        /\ after.close_at = CloseAnimTime
                /\ after.automation_triggered
                     => /\ name \in DOMAIN automation_settings
                        /\ \/ ModeIs(automation_settings[name].mode)
                           \/ after.prompts = 1

C10_Witness ==
    /\ previous_lesson_name = "B" /\ current_lesson_name = "B"
    /\ armed_stale /\ ~stopped
    /\ tip_window = "confirm"
    /\ tip_close_animation_group = "running" /\ close_at = CloseAnimTime
    /\ lesson_elapsed = 0
    /\ ~automation_triggered /\ ~user_activity_detected

\* ------------------------------------------- the trigger on its own ---
\* One lesson with any rule whose "time" lies within MaxOffset of 0, the
\* host's update ticks reporting that lesson with any remaining seconds
\* around the offset, the input hook and the clock.
TriggerRuleSet ==
    [time : (0 - MaxOffset)..MaxOffset, click : {"True", "False"}, mode : Modes]

TriggerRemainingInputs == {NoRemaining} \cup 0..(MaxOffset + 1)

InitTrigger ==
    /\ automation_settings \in [{"A"} -> TriggerRuleSet]
    /\ InitEngine
    /\ InitContext
    /\ InitMonitor
    /\ InitListener
    /\ InitDisplay

UpdateTrigger ==
    /\ ~stopped
    /\ \E remaining \in TriggerRemainingInputs :
          Apply(handle_automation(Self, "A", remaining))

NextTrigger ==
    \/ UpdateTrigger
    \/ RecordUserActivity
    \/ AdvanceTime

SpecTrigger == InitTrigger /\ [][NextTrigger]_vars

\* --------------------------------------------------------------- C11 ---
\* C11, as stated: an update tick that reaches a rule with "time" <= 0
\* while get_current_activity_time_info yields no remaining seconds opens
\* no window and leaves automation_triggered false.
C11_UnavailableStaysFalse ==
    ~stopped =>
      \A name \in LessonInputs :
        (/\ name \in DOMAIN automation_settings
         /\ automation_settings[name].time <= 0
         /\ ~TickTriggered(name))
          => LET after == Tick(name, NoRemaining)
             IN /\ after.prompts = TickPrompts(name)
                /\ ~after.automation_triggered

\* C11, amended: the same tick, while the overlay is not in the rule's
\* mode, opens no window, arms no timer and leaves automation_triggered
\* false; in the rule's mode the comparison of lines 1856-1861 comes first
\* and latches automation_triggered, still without a window.
C11_UnavailableNeverFires ==
    ~stopped =>
      \A name \in LessonInputs :
        (/\ RuleEvaluated(name)
         /\ automation_settings[name].time <= 0)
          => LET after == Tick(name, NoRemaining)
             IN /\ after.prompts = TickPrompts(name)
                /\ after.switches = TickSwitches(name)
                /\ ~after.automation_triggered
                /\ name = previous_lesson_name
                     => /\ after.tip_window = tip_window
                        /\ after.tip_timer = tip_timer

\* a session of a remaining-time rule that update ticks have evaluated
\* without firing it, the overlay being in another mode than the rule's
C11_Witness ==
    /\ HasRule /\ Rule.time <= 0 /\ ~ModeIs(Rule.mode)
    /\ current_lesson_name = previous_lesson_name
    /\ ~automation_triggered /\ prompts = 0 /\ Idle /\ ~stopped

\* --------------------------------------------------------------- C12 ---
\* C12: an update tick that evaluates a rule latches automation_triggered
\* exactly when the rule's condition holds: with "time" > 0, when the
\* time elapsed since the lesson began has reached "time" seconds; with
\* "time" <= 0, when the remaining seconds are at most |"time"|.  It
\* opens the window in exactly those ticks, unless the rule has click
\* "False" and user activity is recorded.
C12_FiresBySign ==
    \A remaining \in TriggerRemainingInputs :
        RuleEvaluated("A")
          => LET rule == automation_settings["A"]
                 after == Tick("A", remaining)
                 offset == IF rule.time < 0 THEN 0 - rule.time ELSE rule.time
                 fires == IF rule.time > 0
                          THEN TickElapsed("A") >= rule.time * UnitsPerSecond
                          ELSE remaining # NoRemaining /\ remaining <= offset
                 interrupted == rule.click = "False" /\ TickActivity("A")
             IN /\ after.automation_triggered <=> fires
                /\ after.prompts = TickPrompts("A") + 1
                     <=> fires /\ ~interrupted

\* a rule with a positive "time" has fired in the tick at which the
\* elapsed time reached it, and not in the ticks before
C12_Witness ==
    /\ HasRule /\ Rule.time = MaxOffset
    /\ lesson_elapsed = Rule.time * UnitsPerSecond
    /\ automation_triggered /\ prompts = 1 /\ tip_window = "confirm"

\* ------------------------------------------ vocabulary of C13 - C20 ---
\* the entries of the requested node
NodeEntries == {key \in DOMAIN timeline_data : key.node = current_part.node}

LessonEntries == {key \in NodeEntries : key.type = "a"}

\* the resolvers have a node to work on: an anchor and entries
HasNode == current_part.start # NoStart /\ NodeEntries # {}

BeforeStart == HasNode /\ current_time < current_part.start

\* the entry that no other entry of the set sorts before
IsFirstOf(key, entries) ==
    /\ key \in entries
    /\ \A other \in entries \ {key} : SortsBefore(key, other)

Highlighted == resolved >= 1

Timed == resolved = 2

\* --------------------------------------------------------------- C13 ---
\* C13, as stated: before the node's start time
\* get_current_activity_time_info returns the node's first lesson entry,
\* with state 0.
C13_FirstLessonPending ==
    Timed /\ BeforeStart /\ LessonEntries # {}
      => /\ IsFirstOf(time_info.current_activity_id, LessonEntries)
         /\ time_info.state = 0

\* C13, amended: before the node's start time
\* get_current_activity_time_info returns the node's first entry in
\* sorted order, a lesson or a break, with state 0.
C13_FirstEntryPending ==
    Timed /\ BeforeStart
      => /\ IsFirstOf(time_info.current_activity_id, NodeEntries)
         /\ time_info.state = 0

\* before the start of a node that has a lesson, a break was returned
C13_Witness ==
    /\ Timed /\ BeforeStart /\ LessonEntries # {}
    /\ time_info.current_activity_id.type = "f"
    /\ time_info.state = 0

\* --------------------------------------------------------------- C14 ---
\* C14: before the node's start time get_current_activity_time_info
\* returns no total (None, not a number of seconds) and, as remaining
\* seconds, exactly the seconds from the current time to the start time.
C14_PendingCountsToStart ==
    Timed /\ BeforeStart
      => /\ time_info.total_seconds = NoTotal
         /\ time_info.remaining_seconds = current_part.start - current_time
         /\ time_info.remaining_seconds > 0

\* one second before the node starts
C14_Witness ==
    /\ Timed /\ BeforeStart
    /\ current_time = current_part.start - 1
    /\ time_info.remaining_seconds = 1
    /\ time_info.total_seconds = NoTotal

\* --------------------------------------------------------------- C15 ---
\* the node's entries in order, and the positions whose window holds the
\* current time
Activities == node_activities(timeline_data, current_part.node)

NodeEnd == node_end_time(timeline_data, Activities, current_part.start)

ContainingNow ==
    Containing(timeline_data, Activities, current_part.start, current_time)

\* the current time lies between the node's start and its end
InNode ==
    /\ HasNode
    /\ current_part.start <= current_time
    /\ current_time < NodeEnd

InBreak ==
    /\ InNode
    /\ ContainingNow # {}
    /\ Activities[Min(ContainingNow)].type = "f"

LessonsAfter(i) == {j \in (i + 1)..Len(Activities) : Activities[j].type = "a"}

\* C15: while the current time lies in the window of a break,
\* calculate_current_course returns the next lesson entry after that
\* break, and None when no lesson follows the break in the node.
C15_BreakAdvances ==
    Highlighted /\ InBreak
      => LET i == Min(ContainingNow)
         IN IF LessonsAfter(i) = {}
            THEN current_course_id = NoActivity
            ELSE current_course_id = Activities[Min(LessonsAfter(i))]

\* --------------------------------------------------------------- C16 ---
\* C16: whatever the table, the anchor and the time,
\* calculate_current_course returns None or a lesson entry of the
\* requested node, never a break.
C16_NeverABreak ==
    Highlighted
      => \/ current_course_id = NoActivity
         \/ current_course_id \in LessonEntries

\* the current time lies in a break and the lesson after it is returned
C16_Witness ==
    /\ Highlighted /\ InBreak
    /\ LessonsAfter(Min(ContainingNow)) # {}
    /\ current_course_id \in LessonEntries

\* --------------------------------------------------------------- C17 ---
\* C17: whatever the table holds, get_current_activity_time_info returns
\* no activity id or the id of an entry of the requested node.
C17_OnlyRequestedNode ==
    Timed
      => \/ time_info.current_activity_id = NoActivity
         \/ /\ time_info.current_activity_id \in DOMAIN timeline_data
            /\ time_info.current_activity_id.node = current_part.node

\* the table holds entries of two nodes and an entry was returned
C17_Witness ==
    /\ Timed
    /\ \E key \in DOMAIN timeline_data : key.node # current_part.node
    /\ time_info.current_activity_id \in NodeEntries

\* --------------------------------------------------------------- C18 ---
\* C18: when the current time is at or after the end of the node's last
\* entry, calculate_current_course returns None and
\* get_current_activity_time_info returns no total, no remaining seconds
\* and no activity id.
C18_NothingAfterEnd ==
    Timed /\ HasNode /\ current_time >= NodeEnd
      => /\ current_course_id = NoActivity
         /\ time_info = NoTimeInfo

\* --------------------------------------------------------------- C19 ---
\* C19: the windows the resolvers compute for the entries of one node, in
\* sorted order, begin at the node's start time and follow one another
\* without gap or overlap: each entry ends where the next begins, the
\* last ends at the node's end, and no time lies in two windows.
C19_Contiguous ==
    Timed /\ HasNode
      => LET start(i) == start_time(timeline_data, Activities,
                                    current_part.start, i)
             end(i) == end_time(timeline_data, Activities,
                                current_part.start, i)
         IN /\ start(1) = current_part.start
            /\ \A i \in 1..(Len(Activities) - 1) : end(i) = start(i + 1)
            /\ end(Len(Activities)) = NodeEnd
            /\ Cardinality(ContainingNow) <= 1

\* the current time lies in the third window of a node
C19_Witness ==
    /\ Timed /\ HasNode
    /\ Len(Activities) >= 3
    /\ ContainingNow = {3}
    /\ time_info.current_activity_id = Activities[3]

InitMouse ==
    /\ automation_settings = << >>
    /\ InitEngine
    /\ InitContext
    /\ InitMonitor
    /\ InitListener
    /\ InitDisplay

Step(s, m) ==
    /\ ApplyEngine(s)
    /\ ApplyMonitor(m)
    /\ UNCHANGED <<context, listener, display>>

BlackboardOpen == is_blackboard_mode /\ blackboard_widget # None

WhiteboardOpen == is_whiteboard_mode /\ whiteboard_widget # None

MouseOnDarkClicked ==
    /\ ~stopped /\ inputs < MaxInputs
    /\ Step(show_blackboard(Click(Self)),
            show_overlay_detection(Monitor, is_blackboard_mode))

MouseOnLightClicked ==
    /\ ~stopped /\ inputs < MaxInputs
    /\ Step(show_whiteboard(Click(Self)),
            show_overlay_detection(Monitor, is_whiteboard_mode))

MouseCloseBlackboardClicked ==
    /\ blackboard_widget = "live" /\ inputs < MaxInputs
    /\ Step(close_blackboard(Click(Self)),
            close_overlay_detection(Monitor, Self, BlackboardOpen))

MouseCloseWhiteboardClicked ==
    /\ whiteboard_widget = "live" /\ inputs < MaxInputs
    /\ Step(close_whiteboard(Click(Self)),
            close_overlay_detection(Monitor, Self, WhiteboardOpen))

MouseSwitchToWhiteboardClicked ==
    /\ blackboard_widget = "live" /\ inputs < MaxInputs
    /\ LET m1 == close_overlay_detection(Monitor, Self, BlackboardOpen)
       IN Step(switch_to_whiteboard_from_blackboard(Click(Self)),
               show_overlay_detection(m1, is_whiteboard_mode))

MouseSwitchToBlackboardClicked ==
    /\ whiteboard_widget = "live" /\ inputs < MaxInputs
    /\ LET m1 == close_overlay_detection(Monitor, Self, WhiteboardOpen)
       IN Step(switch_to_blackboard_from_whiteboard(Click(Self)),
               show_overlay_detection(m1, is_blackboard_mode))

MouseBlackboardAnimFinished ==
    /\ blackboard_animation = "closing"
    /\ Step(on_blackboard_animation_finished(Self),
            stop_mouse_detection(Monitor))

MouseWhiteboardAnimFinished ==
    /\ whiteboard_animation = "closing"
    /\ Step(on_whiteboard_animation_finished(Self),
            stop_mouse_detection(Monitor))

\* the timeout of mouse_hide_timer, with the position the query returns
CheckMouseMovement ==
    /\ mouse_hide_timer = "active"
    /\ mouse_stationary_time < MaxStationarySamples * mouse_check_interval
    /\ \E current_pos \in PositionInputs \cup {NoPosition} :
          Step(Self, check_mouse_movement(Monitor, Self, current_pos))

NextMouse ==
    \/ MouseOnDarkClicked
    \/ MouseOnLightClicked
    \/ MouseCloseBlackboardClicked
    \/ MouseCloseWhiteboardClicked
    \/ MouseSwitchToWhiteboardClicked
    \/ MouseSwitchToBlackboardClicked
    \/ MouseBlackboardAnimFinished
    \/ MouseWhiteboardAnimFinished
    \/ CheckMouseMovement

SpecMouse == InitMouse /\ [][NextMouse]_vars

OverlayActive == is_blackboard_mode \/ is_whiteboard_mode

\* --------------------------------------------------------------- C21 ---
\* C21: while an overlay is active and the detector's timer runs, the
\* cursor has been blanked exactly once since the pointer last moved if
\* the pointer has rested for 2000 ms of samples, and not at all before:
\* hide_mouse takes effect in the 20th sample at rest and in no later one.
C21_HidesOnce ==
    OverlayActive /\ mouse_hide_timer = "active"
      => /\ hide_signals
              = (IF mouse_stationary_time >= mouse_hide_delay THEN 1 ELSE 0)
         /\ mouse_hidden <=> hide_signals = 1

\* two samples after the one that hid the pointer, still hidden once
C21_Witness ==
    /\ OverlayActive /\ mouse_hide_timer = "active"
    /\ mouse_stationary_time = mouse_hide_delay + 2 * mouse_check_interval
    /\ mouse_hidden /\ hide_signals = 1

\* --------------------------------------------------------------- C22 ---
\* C22: a sample taken while the pointer is hidden, at a position other
\* than the recorded one, restores the cursor in that sample, sets
\* mouse_stationary_time to 0 and records the new position.
C22_ShowsOnMove ==
    \A current_pos \in PositionInputs :
        (/\ mouse_hidden /\ mouse_hide_timer = "active"
         /\ current_pos # last_mouse_position)
          => LET after == check_mouse_movement(Monitor, Self, current_pos)
             IN /\ ~after.mouse_hidden
                /\ after.show_signals = 1
                /\ after.mouse_stationary_time = 0
                /\ after.last_mouse_position = current_pos

\* the pointer was hidden and the last sample, at a new position,
\* restored it
C22_Witness ==
    /\ OverlayActive /\ mouse_hide_timer = "active"
    /\ show_signals = 1 /\ ~mouse_hidden
    /\ mouse_stationary_time = 0 /\ hide_signals = 0
    /\ last_mouse_position # NoPosition

\* ---------------------------------------- the event filter on its own ---
\* execute() starts the filter, its 20 ms timer polls the operating
\* system, every signal it emits runs record_user_activity, stop() ends
\* it.
InitFilter ==
    /\ automation_settings = << >>
    /\ InitEngine
    /\ InitContext
    /\ InitMonitor
    /\ InitListener
    /\ InitDisplay

Execute ==
    /\ ~stopped /\ ~running
    /\ \E sample \in Samples : ApplyFilter(start_listening(Filter, sample))
    /\ UNCHANGED <<engine, context, monitor, display>>

\* the timeout of poll_timer
CheckUserActivity ==
    /\ poll_timer = "active"
    /\ \E sample \in Samples :
          LET after == check_user_activity(Filter, sample)
          IN /\ ApplyFilter(after)
             /\ ApplyEngine(IF after.emitted = << >> THEN Self
                            ELSE record_user_activity(Self))
    /\ UNCHANGED <<context, monitor, display>>

StopListening ==
    /\ ~stopped
    /\ ApplyEngine(stop(Self))
    /\ ApplyMonitor(stop_mouse_detection(Monitor))
    /\ ApplyFilter(stop_listening(Filter))
    /\ UNCHANGED <<context, display>>

NextFilter == Execute \/ CheckUserActivity \/ StopListening

SpecFilter == InitFilter /\ [][NextFilter]_vars

\* ------------------------------------------ vocabulary of C23 - C25 ---
\* the poll emitted a signal from the named branch
Emits(f, branch) == \E i \in 1..Len(f.emitted) : f.emitted[i] = branch

Poll(sample) == check_user_activity(Filter, sample)

\* Shift, Ctrl, Alt and the Win keys, with the codes of their left and
\* right keys
ModifierKeys == IgnoredKeys \cup 160..165

\* --------------------------------------------------------------- C23 ---
\* C23: a poll emits a key notification only if some key other than a
\* modifier (Shift, Ctrl, Alt, Win) is down in it and was up in the poll
\* before.
C23_EdgeTriggeredNoModifiers ==
    poll_timer = "active"
      => \A sample \in Samples :
            Emits(Poll(sample), "key")
              => \E vk_code \in KeyCodes \ ModifierKeys :
                    /\ sample.keys[vk_code]
                    /\ ~last_key_state[vk_code]

\* --------------------------------------------------------------- C24 ---
\* C24: the mouse branch of a poll emits a notification exactly when the
\* pointer is found at another place than in the poll before and a mouse
\* button is held; a displacement with no button held and no key newly
\* pressed emits nothing.
C24_MovementNeedsButton ==
    poll_timer = "active"
      => \A sample \in Samples :
            LET moved == /\ sample.pos # NoPosition
                         /\ last_mouse_pos # NoPosition
                         /\ sample.pos # last_mouse_pos
            IN /\ Emits(Poll(sample), "mouse")
                    <=> moved /\ sample.button = "held"
               /\ (/\ moved /\ sample.button = "up"
                   /\ sample.keys # NoKeyStates
                   /\ \A vk_code \in KeyCodes :
                         sample.keys[vk_code]
                           => /\ DOMAIN last_key_state # {}
                              /\ last_key_state[vk_code])
                    => Poll(sample).emitted = << >>

\* the last poll found the pointer displaced with the button held, as
\* in the poll before, and emitted from the mouse branch alone
C24_Witness ==
    /\ poll_timer = "active"
    /\ emitted = <<"mouse">>
    /\ last_mouse_pos # NoPosition
    /\ DOMAIN last_key_state # {} /\ last_key_state[VK_LBUTTON]
    /\ user_activity_detected

\* --------------------------------------------------------------- C25 ---
\* C25, as stated: a poll in which the pointer query or the key-state
\* query fails emits nothing and leaves the poll timer running.
C25_FailureYieldsNothing ==
    poll_timer = "active"
      => \A sample \in Samples :
            sample.pos = NoPosition \/ sample.keys = NoKeyStates
              => /\ Poll(sample).emitted = << >>
                 /\ Poll(sample).poll_timer = "active"

\* C25, amended: a failed query contributes nothing to its poll (the
\* other query still can), no poll stops the timer, and once a poll has
\* read the key states again a key newly pressed in the poll after it is
\* reported.
C25_FailedQueryContributesNothing ==
    poll_timer = "active"
      => \A sample \in Samples :
            /\ Poll(sample).poll_timer = "active"
            /\ Poll(sample).running
            /\ sample.pos = NoPosition => ~Emits(Poll(sample), "mouse")
            /\ sample.keys = NoKeyStates => ~Emits(Poll(sample), "key")
            /\ sample.keys # NoKeyStates
                 => \A later \in Samples :
                       (/\ later.keys # NoKeyStates
                        /\ later.keys[VK_A] /\ ~sample.keys[VK_A])
                         => Emits(check_user_activity(Poll(sample), later),
                                  "key")

\* both queries of the last poll failed after activity had been
\* reported, and the timer still runs
C25_Witness ==
    /\ poll_timer = "active" /\ running
    /\ last_mouse_pos = NoPosition
    /\ DOMAIN last_key_state = {}
    /\ emitted = << >>
    /\ user_activity_detected

\* ------------------------------------- rules with an unknown mode ---
\* data.json is loaded as it is: the "mode" of a rule is whatever string
\* the file holds. Lesson "A" carries a rule whose mode is none of the
\* three the plugin knows.
UnknownModes == {"dark"}

UnknownModeRuleSet ==
    [time : {1, -1}, click : {"True", "False"}, mode : UnknownModes]

InitConfig ==
    /\ automation_settings \in [{"A"} -> UnknownModeRuleSet]
    /\ InitEngine
    /\ InitContext
    /\ InitMonitor
    /\ InitListener
    /\ InitDisplay

SpecConfig == InitConfig /\ [][Next]_vars

\* --------------------------------------------------------------- C26 ---
\* C26: while the lesson whose rule has an unknown mode string is the
\* current one, no confirmation window has been opened for it and no
\* mode switch has been executed for it.
C26_UnknownModeSkipped ==
    (/\ previous_lesson_name \in DOMAIN automation_settings
     /\ automation_settings[previous_lesson_name].mode \notin Modes)
      => /\ prompts = 0
         /\ tip_window # "confirm"
         /\ switches = 0

\* the same, for the switch alone
C26_UnknownModeNeverSwitches ==
    (/\ previous_lesson_name \in DOMAIN automation_settings
     /\ automation_settings[previous_lesson_name].mode \notin Modes)
      => switches = 0

\* --------------------------------------------------------------- C27 ---
\* C27: without a node anchor start time, or without any Timeline_Data
\* entry of the requested node, calculate_current_course returns None
\* and get_current_activity_time_info returns its all-None tuple; both
\* always return a value of their result type.
C27_MissingDataNoSegment ==
    /\ Highlighted => current_course_id \in ActivityIds \cup {NoActivity}
    /\ Timed => \/ time_info = NoTimeInfo
                \/ time_info.current_activity_id \in ActivityIds
    /\ (current_part.start = NoStart \/ NodeEntries = {})
          => /\ Highlighted => current_course_id = NoActivity
             /\ Timed => time_info = NoTimeInfo

\* both resolvers have run with an anchor on a node that has no entry
\* in a schedule that has entries of another node
C27_Witness ==
    /\ Timed
    /\ current_part.start # NoStart
    /\ NodeEntries = {}
    /\ DOMAIN timeline_data # {}
    /\ current_course_id = NoActivity
    /\ time_info = NoTimeInfo

\* --------------------------------------------------------------- C28 ---
\* C28: an update tick in which get_current_activity_time_info has no
\* resolution opens no confirmation window and arms no timer, whether
\* the rule of the reported lesson counts elapsed or remaining seconds.
C28_UnresolvedOpensNothing ==
    ~stopped =>
      \A name \in LessonInputs :
        name \in DOMAIN automation_settings
          => LET after == Tick(name, NoRemaining)
             IN /\ after.prompts = TickPrompts(name)
                /\ name = previous_lesson_name
                     => /\ after.tip_window = tip_window
                        /\ after.tip_timer = tip_timer
                        /\ after.realtime_check_timer = realtime_check_timer

\* --------------------------------------------------------------- C29 ---
\* the deadline of the current lesson's confirmation window is due and
\* activity has been recorded that no realtime poll has handled yet
Tie ==
    /\ ArmedWaiting /\ ~armed_stale
    /\ tip_timer_at = 0
    /\ user_activity_detected

\* C29: under a rule with click = "False", on_tip_timeout running while
\* the activity flag is set cancels: execute_mode_switch is not called,
\* the overlay flags stay as they are, the timers are stopped and the
\* "interrupted" notice is scheduled.
C29_TieCancels ==
    (HasRule /\ Rule.click = "False" /\ Tie)
      => LET after == on_tip_timeout(Self)
         IN /\ after.switches = switches
            /\ after.is_blackboard_mode = is_blackboard_mode
            /\ after.is_whiteboard_mode = is_whiteboard_mode
            /\ after.cancelled
            /\ after.tip_timer = None
            /\ after.realtime_check_timer = None
            /\ BagIn(Shot("show_interruption_success", InterruptDelay),
                     after.shots)

\* in the step C29 is about, the deadline handler runs in a tie and no
\* switch is executed
C29_TieStepCancels ==
    [][(HasRule /\ Rule.click = "False" /\ Tie /\ TipTimeout)
          => (~SwitchCalled /\ cancelled')]_vars

C29_Witness ==
    /\ HasRule /\ Rule.click = "False" /\ Tie
    /\ tip_timer = "active" /\ realtime_check_timer = "active"
    /\ ~cancelled /\ switches = 0 /\ ~stopped

\* --------------------------------------------------------------- C30 ---
\* the "interrupted" notice is displayed and nothing is closing it
NoticeDisplayed ==
    /\ tip_window = "notice"
    /\ tip_close_animation_group = None

\* C30: user activity recorded while the "interrupted" notice is
\* displayed has no effect on it: the realtime poll and the deadline
\* handler neither start closing the notice nor schedule another one.
C30_NoticeIgnoresActivity ==
    [][(/\ NoticeDisplayed /\ user_activity_detected
        /\ (RealtimePoll \/ TipTimeout))
          => /\ tip_close_animation_group' = None
             /\ tip_window' = "notice"
             /\ shots' = shots]_vars

\* --------------------------------------------------------------- C31 ---
\* C31: a poll emits user_activity_detected at most once, also when it
\* finds both a displacement with a button held and a key newly pressed.
C31_OneEmissionPerPoll == Len(emitted) <= 1

\* ------------------------------------------- the countdown display ---
\* Python computes ((total - remaining) / total) * 100 in binary64: the
\* quotient and the product are each rounded to 53 significant bits, to
\* nearest, ties to even. A float is a mantissa of MantissaBits bits,
\* most significant first with a leading 1, and a power of two:
\* value = (the mantissa read as a binary number) * 2^exponent.
MantissaBits == 53

\* F of a value that is computed once
With(value, F(_)) == CHOOSE result \in {F(v) : v \in {value}} : TRUE

RECURSIVE ToBits(_)
ToBits(n) == IF n = 0 THEN << >> ELSE ToBits(n \div 2) \o <<n % 2>>

\* the number whose binary places are the first n of bits
RECURSIVE ToNat(_, _)
ToNat(bits, n) == IF n = 0 THEN 0 ELSE 2 * ToNat(bits, n - 1) + bits[n]

\* bits + 1: a place changes when all the places after it are 1
Increment(bits) ==
    IF \A i \in 1..Len(bits) : bits[i] = 1
    THEN <<1>> \o [i \in 1..Len(bits) |-> 0]
    ELSE [i \in 1..Len(bits) |->
            IF \A j \in (i + 1)..Len(bits) : bits[j] = 1
            THEN 1 - bits[i] ELSE bits[i]]

\* a carry out of the top bit leaves MantissaBits + 1 bits, the last 0
Normalize(bits, exponent) ==
    IF Len(bits) > MantissaBits
    THEN [mantissa |-> SubSeq(bits, 1, MantissaBits), exponent |-> exponent + 1]
    ELSE [mantissa |-> bits, exponent |-> exponent]

\* the MantissaBits kept bits, rounded up or left as they are
Rounded(kept, up, exponent) ==
    IF up THEN With(Increment(kept), LAMBDA bits : Normalize(bits, exponent))
    ELSE [mantissa |-> kept, exponent |-> exponent]

\* the binary places of r / divisor that are 0 before the first 1
RECURSIVE LeadingZeros(_, _)
LeadingZeros(r, divisor) ==
    IF 2 * r >= divisor THEN 0 ELSE 1 + LeadingZeros(2 * r, divisor)

\* bits followed by the next n binary places of r / divisor, and what
\* is left of r
RECURSIVE Quotient(_, _, _, _)
Quotient(r, divisor, n, bits) ==
    IF n = 0 THEN [bits |-> bits, rem |-> r]
    ELSE IF 2 * r >= divisor
    THEN Quotient(2 * r - divisor, divisor, n - 1, Append(bits, 1))
    ELSE Quotient(2 * r, divisor, n - 1, Append(bits, 0))

\* dividend / divisor for 0 < dividend < divisor
TrueDivide(dividend, divisor) ==
    With(LeadingZeros(dividend, divisor), LAMBDA zeros :
      With(Quotient(dividend * 2^zeros, divisor, MantissaBits, << >>),
           LAMBDA q :
             Rounded(q.bits,
                     \/ 2 * q.rem > divisor
                     \/ 2 * q.rem = divisor /\ q.bits[MantissaBits] = 1,
                     0 - (zeros + MantissaBits))))

\* the exact product of a binary number and a small integer: the places
\* below the i-th are in low, carry comes from them
RECURSIVE TimesSmall(_, _, _, _, _)
TimesSmall(bits, k, i, carry, low) ==
    IF i = 0 THEN ToBits(carry) \o low
    ELSE TimesSmall(bits, k, i - 1, (bits[i] * k + carry) \div 2,
                    <<(bits[i] * k + carry) % 2>> \o low)

\* float * k, for an integer k that is a float itself
FloatTimes(x, k) ==
    With(TimesSmall(x.mantissa, k, Len(x.mantissa), 0, << >>),
         LAMBDA product :
           Rounded(SubSeq(product, 1, MantissaBits),
                   /\ Len(product) > MantissaBits
                   /\ product[MantissaBits + 1] = 1
                   /\ \/ product[MantissaBits] = 1
                      \/ \E i \in (MantissaBits + 2)..Len(product) :
                            product[i] = 1,
                   x.exponent + Len(product) - MantissaBits))

\* int(x) for a float 0 <= x < 2^MantissaBits
FloatToInt(x) ==
    IF 0 - x.exponent >= MantissaBits THEN 0
    ELSE ToNat(x.mantissa, MantissaBits + x.exponent)

\* variant: the percentage is rounded to the nearest integer
progress_percentage_rounded(total_seconds, remaining_seconds) ==
    (2 * (total_seconds - remaining_seconds) * 100 + total_seconds)
        \div (2 * total_seconds)

\* int(((total_seconds - remaining_seconds) / total_seconds) * 100)
progress_percentage(total_seconds, remaining_seconds) ==
    LET done == total_seconds - remaining_seconds
    IN IF done = 0 THEN 0
       ELSE IF done = total_seconds THEN 100
       ELSE With(TrueDivide(done, total_seconds), LAMBDA quotient :
              With(FloatTimes(quotient, 100), LAMBDA product :
                FloatToInt(product)))

\* the value update_blackboard_countdown and update_whiteboard_countdown
\* hand to the progress ring, which keeps its value when they return early
countdown_progress(shown, value, info) ==
    IF ~shown THEN value
    ELSE IF info.remaining_seconds = NoRemaining THEN 0
    ELSE IF info.total_seconds = NoTotal THEN 100
    ELSE IF info.total_seconds > 0
    THEN Max({0, Min({100, progress_percentage(info.total_seconds,
                                               info.remaining_seconds)})})
    ELSE value

update_blackboard_countdown(s, value, info) ==
    countdown_progress(s.is_blackboard_mode /\ s.blackboard_widget # None,
                       value, info)

update_whiteboard_countdown(s, value, info) ==
    countdown_progress(s.is_whiteboard_mode /\ s.whiteboard_widget # None,
                       value, info)

\* ------------------------------------------ the display on its own ---
\* The tracker's result is any it can return for an activity of one
\* minute or of MaxMinutes minutes: nothing, a pending first activity, or
\* an activity in progress with between one second and all of its
\* seconds left. The
\* overlays are opened by their buttons and each timer tick of an open
\* overlay updates its ring.
MaxMinutes == 5

FirstActivity == [type |-> "a", node |-> 1, number |-> 1]

ProgressInputs ==
    {NoTimeInfo}
      \cup {TimeInfo(NoTotal, remaining, FirstActivity, 0) :
               remaining \in {0, 1, SecondsPerMinute}}
      \cup UNION {{TimeInfo(minutes * SecondsPerMinute, remaining,
                            FirstActivity, 1) :
                      remaining \in 1..(minutes * SecondsPerMinute)} :
                    minutes \in {1, MaxMinutes}}

InitProgress ==
    /\ automation_settings = << >>
    /\ InitEngine
    /\ timeline_data = << >>
    /\ current_part = [start |-> NoStart, node |-> 0]
    /\ current_time = 0
    /\ current_course_id = NoActivity
    /\ time_info \in ProgressInputs
    /\ resolved = 2
    /\ InitMonitor
    /\ InitListener
    /\ InitDisplay

UpdateBlackboardCountdown ==
    /\ is_blackboard_mode
    /\ current_blackboard_progress' =
          update_blackboard_countdown(Self, current_blackboard_progress,
                                      time_info)
    /\ UNCHANGED <<engine, context, monitor, listener,
                   current_whiteboard_progress>>

UpdateWhiteboardCountdown ==
    /\ is_whiteboard_mode
    /\ current_whiteboard_progress' =
          update_whiteboard_countdown(Self, current_whiteboard_progress,
                                      time_info)
    /\ UNCHANGED <<engine, context, monitor, listener,
                   current_blackboard_progress>>

NextProgress ==
    \/ OnDarkClicked
    \/ OnLightClicked
    \/ UpdateBlackboardCountdown
    \/ UpdateWhiteboardCountdown

SpecProgress == InitProgress /\ [][NextProgress]_vars

\* --------------------------------------------------------------- C32 ---
\* the tracker's result is a pending activity or one in progress
Counting == time_info.remaining_seconds # NoRemaining

Pending == Counting /\ time_info.total_seconds = NoTotal

Elapsed == time_info.total_seconds - time_info.remaining_seconds

\* the exact percentage, rounded down and rounded to the nearest integer
PercentDown == (Elapsed * 100) \div time_info.total_seconds

PercentNearest ==
    (2 * Elapsed * 100 + time_info.total_seconds)
        \div (2 * time_info.total_seconds)

\* what a tick of each overlay's countdown hands to its ring
BlackboardRing ==
    update_blackboard_countdown(Self, current_blackboard_progress, time_info)

WhiteboardRing ==
    update_whiteboard_countdown(Self, current_whiteboard_progress, time_info)

Truncated(ring) ==
    IF Pending THEN ring = 100
    ELSE /\ ring \in 0..100
         /\ ring <= PercentDown
         /\ ring >= PercentDown - 1
         /\ (Elapsed * 100) % time_info.total_seconds # 0
              => ring = PercentDown

\* C32, as stated: a countdown tick of a shown overlay sets the ring to
\* 100 for a pending activity and else to the elapsed share of the
\* activity in percent, rounded to the nearest integer, within 0..100.
C32_NearestPercent ==
    Counting =>
      /\ is_blackboard_mode
           => BlackboardRing = IF Pending THEN 100
                               ELSE Max({0, Min({100, PercentNearest})})
      /\ is_whiteboard_mode
           => WhiteboardRing = IF Pending THEN 100
                               ELSE Max({0, Min({100, PercentNearest})})

\* C32, amended: such a tick sets the ring to 100 for a pending activity
\* and else to the elapsed share in percent cut down to an integer, never
\* rounded up; where the exact percentage is a whole number the binary
\* floating-point quotient can fall just below it and the ring then
\* shows one less. The value lies within 0..100.
C32_TruncatedPercent ==
    Counting =>
      /\ is_blackboard_mode => \A ring \in {BlackboardRing} : Truncated(ring)
      /\ is_whiteboard_mode => \A ring \in {WhiteboardRing} : Truncated(ring)

\* a countdown tick has set the blackboard's ring to a percentage that
\* rounding to the nearest integer would have made one larger
C32_Witness ==
    /\ is_blackboard_mode /\ Counting /\ ~Pending
    /\ current_blackboard_progress = BlackboardRing
    /\ current_blackboard_progress = PercentDown
    /\ PercentNearest = PercentDown + 1
    /\ current_blackboard_progress > 0

\* --------------------------------------------------------------- C33 ---
\* the seconds from midnight at which the i-th of the entries begins and
\* ends, not wrapped
WindowStart(entries, i) ==
    accumulated(timeline_data, entries, current_part.start, i)

WindowEnd(entries, i) ==
    WindowStart(entries, i) + timeline_data[entries[i]] * SecondsPerMinute

\* C33: the entries of the node are ordered by sequence number and, at
\* equal number, the lesson before the break; every entry of the node
\* has one place; the window of an earlier entry ends before the window
\* of a later one begins, so a lesson's window lies before the window of
\* the break of its number and the two never hold the same time.
C33_LessonBeforeBreak ==
    Timed /\ HasNode =>
      \A entries \in {Activities} :
        /\ {entries[i] : i \in 1..Len(entries)} = NodeEntries
        /\ Len(entries) = Cardinality(NodeEntries)
        /\ \A i \in 1..Len(entries) : \A j \in (i + 1)..Len(entries) :
              /\ \/ entries[i].number < entries[j].number
                 \/ /\ entries[i].number = entries[j].number
                    /\ entries[i].type = "a"
                    /\ entries[j].type = "f"
              /\ WindowEnd(entries, i) <= WindowStart(entries, j)
              /\ ~(i \in ContainingNow /\ j \in ContainingNow)

\* the timed resolver has found the current time in the window of a
\* break whose number a lesson of the node shares
C33_Witness ==
    /\ Timed /\ InNode
    /\ time_info.current_activity_id.type = "f"
    /\ [time_info.current_activity_id EXCEPT !.type = "a"] \in NodeEntries
    /\ time_info.total_seconds # NoTotal

\* --------------------------------------------------------------- C34 ---
\* C34 is about a time between the node's start and its end that no
\* entry's window holds. There is no such time: the windows follow one
\* another from the node's start to its end, so between the two the
\* timed resolver always finds the entry whose window holds the time.
C34_NeverWithoutWindow ==
    Timed /\ InNode
      => /\ ContainingNow # {}
         /\ time_info # NoTimeInfo
         /\ time_info.total_seconds # NoTotal

\* --------------------------------------------------------------- C35 ---
\* the overlays once every close animation in progress has finished
Settled(s) ==
    LET b == IF s.blackboard_animation = "closing"
             THEN on_blackboard_animation_finished(s) ELSE s
    IN IF b.whiteboard_animation = "closing"
       THEN on_whiteboard_animation_finished(b) ELSE b

\* the deadline of a confirmation prompt expires with no activity recorded
CommitDue ==
    /\ tip_timer = "active" /\ tip_timer_at = 0
    /\ tip_window = "confirm"
    /\ ~user_activity_detected

\* C35: once the deadline of a confirmation prompt for target mode M has
\* committed the switch and the overlays' close animations have finished,
\* get_current_mode() returns M, whatever mode was active before.
C35_CommitReachesTarget ==
    CommitDue =>
      get_current_mode(Settled(on_tip_timeout(Self))) = current_automation_mode

\* --------------------------------------------------------------- C36 ---
\* C36: the flags of the two overlays are never both raised.
C36_NeverBothOverlays == ~(is_blackboard_mode /\ is_whiteboard_mode)

\* --------------------------------------------------------------- C37 ---
\* the four ways a prompt may end: the realtime poll sees recorded
\* activity, the prompt's deadline expires, an update tick reports another
\* lesson name, or the plugin is stopped
EndedByCancel == RealtimePoll /\ user_activity_detected

EndedByDeadline == TipTimeout

EndedByLessonChange == Update /\ previous_lesson_name' # previous_lesson_name

EndedByShutdown == Stop

\* C37: a step that ends ArmedWaiting (the prompt's window, deadline timer
\* or realtime poll is no longer live) is one of those four; a callback
\* left over from an earlier window (the end of its close animation, the
\* auto-close of an earlier notice) never ends the prompt.
C37_EndedOnlyByItsOwnEvents ==
    [][ArmedWaiting /\ ~ArmedWaiting'
          => \/ EndedByCancel
             \/ EndedByDeadline
             \/ EndedByLessonChange
             \/ EndedByShutdown]_vars

\* --------------------------------------------------------------- C38 ---
\* an overlay's close animation is running
ClosingOverlay ==
    blackboard_animation = "closing" \/ whiteboard_animation = "closing"

\* C38: whenever an overlay is active and no overlay is being closed, the
\* stationary-pointer poll is running, also after a switch from one
\* overlay straight to the other.
C38_PollRunsWhileOverlay ==
    OverlayActive /\ ~ClosingOverlay => mouse_hide_timer = "active"

\* --------------------------------------------------------------- C39 ---
\* C39: activity reported before a confirmation window opens never
\* cancels it. A step that opens a window leaves user_activity_detected
\* false; the flag rises again only when activity is reported; and a
\* prompt is cancelled only in a step that finds the flag raised. So the
\* activity that cancels a prompt was reported after the prompt armed.
C39_StaleActivityNeverCancels ==
    [][/\ WindowOpened => ~user_activity_detected'
       /\ ~user_activity_detected /\ user_activity_detected'
            => RecordUserActivity
       /\ ~cancelled /\ cancelled' => user_activity_detected]_vars

\* activity is on record in the lesson and the next tick opens the prompt
\* of a rule that does not skip on activity; the prompt arms with the flag
\* lowered and its first poll leaves it armed
C39_Witness ==
    /\ ~stopped /\ user_activity_detected /\ HasRule /\ Idle
    /\ \E remaining \in RemainingInputs :
          LET after == Tick(previous_lesson_name, remaining)
          IN /\ after.prompts = prompts + 1
             /\ ArmedIn(after)
             /\ ~after.user_activity_detected
             /\ ArmedIn(check_realtime_user_activity(after))

\* --------------------------------------------------------------- C40 ---
\* an update tick that evaluates the rule of the lesson it reports and
\* finds the overlays already in the rule's target mode
PreCheckHit ==
    /\ Update
    /\ current_lesson_name' \in DOMAIN automation_settings
    /\ ~TickTriggered(current_lesson_name')
    /\ ModeIs(automation_settings[current_lesson_name'].mode)

\* C40: the mode pre-check latches before the trigger time. A tick that
\* finds the current mode equal to the rule's target sets
\* automation_triggered at once, whatever the times say, and opens no
\* prompt; and while the lesson name stays the same a set latch stays set
\* and no prompt is opened, whatever happens to the mode.
C40_PreCheckLatches ==
    [][/\ PreCheckHit
            => /\ automation_triggered'
               /\ prompts' = TickPrompts(current_lesson_name')
       /\ automation_triggered /\ previous_lesson_name' = previous_lesson_name
            => /\ automation_triggered'
               /\ prompts' = prompts]_vars

\* the latch was set before the rule's trigger time by the pre-check (no
\* prompt, no switch, the elapsed time still short of the rule's), the
\* mode has changed since, and no tick of this lesson opens a prompt
C40_Witness ==
    /\ ~stopped /\ HasRule /\ Rule.time > 0
    /\ lesson_elapsed < Rule.time * UnitsPerSecond
    /\ automation_triggered /\ prompts = 0 /\ switches = 0
    /\ ~ModeIs(Rule.mode)
    /\ \A remaining \in RemainingInputs :
          LET after == Tick(previous_lesson_name, remaining)
          IN after.prompts = 0 /\ after.tip_window = None

====
